---- MODULE Spec2Model ----
(***************************************************************************)
(* NotionKeeper: the resource tree (src/src/models.py), the content codec  *)
(* (Markdown -> ProseMirror nodes in src/src/legendkeeper_exporter.py and  *)
(* nodes -> Markdown in src/src/legendkeeper_parser.py) and the readers    *)
(* (src/src/notion_parser.py, src/src/legendkeeper_parser.py), the writers *)
(* (src/src/notion_exporter.py, src/src/legendkeeper_exporter.py) and the  *)
(* command line tool (src/notionkeeper.py, src/src/converter.py).          *)
(*                                                                         *)
(* Spec      : the resource tree under add_resource / add_child and the    *)
(*             queries get_all_resources, find_resource_by_id/_by_name.    *)
(* SpecCodec : _markdown_to_prosemirror run line by line on a Markdown     *)
(*             text, then _process_nodes on its result, then a second      *)
(*             _markdown_to_prosemirror on that text.                      *)
(* SpecNodes : _process_nodes on node lists as a JSON export may hold      *)
(*             them, with missing, null and wrongly typed fields.          *)
(* SpecNotion: NotionParser.parse_directory on the *.md files of a         *)
(*             directory: name and id from each file name stem.            *)
(* SpecProps : NotionParser._extract_properties on a page body, statement  *)
(*             by statement.                                               *)
(* SpecJson  : LegendKeeperParser.parse_json, its two passes over the      *)
(*             resource records of an export file.                         *)
(* FairSpecCodec : _markdown_to_prosemirror as in SpecCodec, on one line   *)
(*             per branch of the loop body, the call running to its end.   *)
(* SpecExport: NotionExporter._format_content and the LegendKeeperExporter *)
(*             writers on one Resource; the Notion text read back.         *)
(* SpecMain  : main() of src/notionkeeper.py around                        *)
(*             NotionKeeper.to_legendkeeper (src/src/converter.py).        *)
(***************************************************************************)
EXTENDS Integers, Sequences, FiniteSets, TLC

VARIABLES
    id,          \* Resource.id of every Resource object
    name,        \* Resource.name
    parent_id,   \* Resource.parent_id (None when unset)
    children,    \* Resource.children: a list of Resource objects
    resources,   \* ConversionData.resources: the list of roots
    calls,       \* number of mutating calls made so far
    last,        \* the last call made and what it returned
    content,     \* codec: the Markdown text handed to _markdown_to_prosemirror
    lines,       \* codec: content.split("\n")
    i,           \* codec: the line index of the main loop
    nodes,       \* codec: the nodes list being built, then returned
    src,         \* codec: for each node, the lines it was made from
    pc,          \* codec: position in the pipeline
    md,          \* codec: what _process_nodes returned for nodes
    second,      \* codec: what _markdown_to_prosemirror returned for md
    doc,         \* nodes: the value handed to _process_nodes
    out,         \* nodes: what _process_nodes returned for doc, or that it raised
    called,      \* nodes: whether _process_nodes has been called on doc
    md_files,    \* notion: the stems of the *.md files parse_directory found
    pages,       \* notion: the Resources parse_directory has added so far
    page,        \* props: the Resource handed to _extract_properties
    frame,       \* props: the locals of _extract_properties and its position
    resources_data,   \* json: the "resources" list of the export file
    resources_by_id,  \* json: the dict of the first pass, in insertion order
    jpc,         \* json: position in parse_json
    res_in,      \* export: the Resource handed to the writers
    notion_text, \* export: what _format_content returned for it
    lk_resource, \* export: what _resource_to_legendkeeper returned for it
    lk_markdown, \* export: what _format_markdown_content returned for it
    reread,      \* export: the Resource read back from notion_text
    wrote,       \* export: the writers and readers that have run
    listing,     \* main: the export directory as os.listdir and open see it
    no_log,      \* main: args.no_log
    mpc,         \* main: position in main() and to_legendkeeper
    root_elements,  \* main: what read_notion_elements returned
    applied,     \* main: the rule calls made so far, in the order made
    saved,       \* main: whether save_legendkeeper_elements has been called
    exc,         \* main: the exception propagating out of the try block
    sys_stdout,  \* main: sys.stdout
    logger,      \* main: NotionKeeper.logger (None, or the Logger object)
    logger_stdout,  \* main: Logger.stdout, the stream the Logger was built on
    log_file     \* main: the log file's state

treeVars == <<id, name, parent_id, children, resources, calls, last>>
codecVars == <<content, lines, i, nodes, src, pc, md, second>>
nodeVars == <<doc, out, called>>
notionVars == <<md_files, pages>>
propVars == <<page, frame>>
jsonVars == <<resources_data, resources_by_id, jpc>>
exportVars == <<res_in, notion_text, lk_resource, lk_markdown, reread, wrote>>
mainVars == <<listing, no_log, mpc, root_elements, applied, saved, exc,
              sys_stdout, logger, logger_stdout, log_file>>
moreVars == <<exportVars, mainVars>>
extVars == <<notionVars, propVars, jsonVars, moreVars>>
vars == <<treeVars, codecVars, nodeVars, extVars>>

(***************************************************************************)
(* Bounds                                                                  *)
(***************************************************************************)
\* At most MaxCalls add_child / add_resource calls are made.
MaxCalls == 3
\* The number of lines of a Markdown text is at most MaxLines.
MaxLines == 3
\* A Notion export directory holds at most MaxFiles *.md files.
MaxFiles == 2
\* A page body has at most MaxFill lines between its first lines and its last.
MaxFill == 21
\* A page body ends in at most MaxTail lines of any kind.
MaxTail == 2
\* A JSON export holds at most MaxRecords resource records.
MaxRecords == 3

(***************************************************************************)
(* Generic helpers                                                         *)
(***************************************************************************)
Range(s) == {s[k] : k \in 1..Len(s)}

Count(s, x) == Cardinality({k \in 1..Len(s) : s[k] = x})

RECURSIVE Concat(_)
Concat(ss) == IF ss = <<>> THEN <<>> ELSE Head(ss) \o Concat(Tail(ss))

(***************************************************************************)
(* The resource tree: src/src/models.py                                    *)
(***************************************************************************)
\* The Resource objects of a run; identity is the object, not its id field.
Res == {"r1", "r2", "r3"}
Ids == {"a", "b"}
Names == {"n", "m"}
None == "None"

\* Python's recursion limit, scaled to the model: a recursion deeper than the
\* number of Resource objects can only come from a cycle and never returns.
RecursionLimit == Cardinality(Res) + 1

NoCall == [op |-> "none", p |-> None, c |-> None, x |-> None,
           found |-> None, all |-> <<>>, raised |-> FALSE]

\* add_child detaching the child from every list it is in before appending it.
AddChildMutDetach(p, c) ==
    /\ calls < MaxCalls
    /\ children' = [r \in Res |->
                       IF r = p
                       THEN Append(SelectSeq(children[r], LAMBDA x : x # c), c)
                       ELSE SelectSeq(children[r], LAMBDA x : x # c)]
    /\ parent_id' = [parent_id EXCEPT ![c] = id[p]]
    /\ calls' = calls + 1
    /\ last' = [NoCall EXCEPT !.op = "add_child", !.p = p, !.c = c]
    /\ UNCHANGED <<id, name, resources, codecVars, nodeVars, extVars>>

\* Resource.add_child: self.children.append(child); child.parent_id = self.id
AddChild(p, c) ==
    /\ calls < MaxCalls
    /\ children' = [children EXCEPT ![p] = Append(@, c)]
    /\ parent_id' = [parent_id EXCEPT ![c] = id[p]]
    /\ calls' = calls + 1
    /\ last' = [NoCall EXCEPT !.op = "add_child", !.p = p, !.c = c]
    /\ UNCHANGED <<id, name, resources, codecVars, nodeVars, extVars>>

\* ConversionData.add_resource: self.resources.append(resource)
AddResource(r) ==
    /\ calls < MaxCalls
    /\ resources' = Append(resources, r)
    /\ calls' = calls + 1
    /\ last' = [NoCall EXCEPT !.op = "add_resource", !.c = r]
    /\ UNCHANGED <<id, name, parent_id, children, codecVars, nodeVars, extVars>>

\* The result of a recursive walk: a value, or RecursionError.
Raised == [ok |-> FALSE, val |-> <<>>]
Ok(v) == [ok |-> TRUE, val |-> v]

\* collect with the resource appended after its children (post-order).
RECURSIVE CollectMutPostOrder(_, _)
CollectMutPostOrder(rs, fuel) ==
    IF fuel = 0 THEN Raised
    ELSE IF rs = <<>> THEN Ok(<<>>)
    ELSE LET sub == CollectMutPostOrder(children[Head(rs)], fuel - 1)
             rest == CollectMutPostOrder(Tail(rs), fuel)
         IN IF ~sub.ok \/ ~rest.ok THEN Raised
            ELSE Ok(sub.val \o <<Head(rs)>> \o rest.val)

\* get_all_resources.collect: result.append(resource);
\* result.extend(collect(resource.children)), for each resource in turn.
RECURSIVE Collect(_, _)
Collect(rs, fuel) ==
    IF fuel = 0 THEN Raised
    ELSE IF rs = <<>> THEN Ok(<<>>)
    ELSE LET sub == Collect(children[Head(rs)], fuel - 1)
         IN IF ~sub.ok THEN Raised
            ELSE LET rest == Collect(Tail(rs), fuel)
                 IN IF ~rest.ok THEN Raised
                    ELSE Ok(<<Head(rs)>> \o sub.val \o rest.val)

get_all_resources == Collect(resources, RecursionLimit)

\* search returning whatever the first subtree gave ("return found" without
\* "if found"): later siblings are never searched.
RECURSIVE SearchMutPrune(_, _, _, _)
SearchMutPrune(f, x, rs, fuel) ==
    IF fuel = 0 THEN Raised
    ELSE IF rs = <<>> THEN Ok(None)
    ELSE IF f[Head(rs)] = x THEN Ok(Head(rs))
    ELSE LET found == SearchMutPrune(f, x, children[Head(rs)], fuel - 1)
         IN IF ~found.ok THEN Raised ELSE found

\* find_resource_by_id.search / find_resource_by_name.search over field f:
\* return the resource when it matches, else search its children and return
\* what that found when it is truthy, else go on with the next resource.
RECURSIVE Search(_, _, _, _)
Search(f, x, rs, fuel) ==
    IF fuel = 0 THEN Raised
    ELSE IF rs = <<>> THEN Ok(None)
    ELSE IF f[Head(rs)] = x THEN Ok(Head(rs))
    ELSE LET found == Search(f, x, children[Head(rs)], fuel - 1)
         IN IF ~found.ok THEN Raised
            ELSE IF found.val # None THEN found
            ELSE Search(f, x, Tail(rs), fuel)

find_resource_by_id(x) == Search(id, x, resources, RecursionLimit)

find_resource_by_name(x) == Search(name, x, resources, RecursionLimit)

\* The queries as calls: they leave the tree alone and return a value.
GetAllResources ==
    /\ last' = [NoCall EXCEPT !.op = "get_all_resources",
                              !.all = get_all_resources.val,
                              !.raised = ~get_all_resources.ok]
    /\ UNCHANGED <<id, name, parent_id, children, resources, calls,
                   codecVars, nodeVars, extVars>>

FindResourceById(x) ==
    /\ last' = [NoCall EXCEPT !.op = "find_resource_by_id", !.x = x,
                              !.found = IF find_resource_by_id(x).ok
                                        THEN find_resource_by_id(x).val ELSE None,
                              !.raised = ~find_resource_by_id(x).ok]
    /\ UNCHANGED <<id, name, parent_id, children, resources, calls,
                   codecVars, nodeVars, extVars>>

FindResourceByName(x) ==
    /\ last' = [NoCall EXCEPT !.op = "find_resource_by_name", !.x = x,
                              !.found = IF find_resource_by_name(x).ok
                                        THEN find_resource_by_name(x).val ELSE None,
                              !.raised = ~find_resource_by_name(x).ok]
    /\ UNCHANGED <<id, name, parent_id, children, resources, calls,
                   codecVars, nodeVars, extVars>>

\* The codec's variables while the tree is exercised, and the reverse.
CodecIdle ==
    /\ content = <<>> /\ lines = <<>> /\ i = 0 /\ nodes = <<>> /\ src = <<>>
    /\ pc = "idle" /\ md = [ok |-> TRUE, val |-> <<>>] /\ second = <<>>

NodesIdle ==
    /\ doc = [k |-> "list", v |-> <<>>]
    /\ out = [ok |-> TRUE, val |-> <<>>]
    /\ called = FALSE

TreeIdle ==
    /\ id = [r \in Res |-> "a"] /\ name = [r \in Res |-> "n"]
    /\ parent_id = [r \in Res |-> None] /\ children = [r \in Res |-> <<>>]
    /\ resources = <<>> /\ calls = 0 /\ last = NoCall

\* The readers' variables while another component is exercised.
NotionIdle == md_files = <<>> /\ pages = <<>>

NoFrame ==
    [pc |-> "idle", lines |-> <<>>, content_start_idx |-> 0,
     property_end_idx |-> 0, i |-> 0, captured |-> {}]

PropsIdle ==
    /\ page = [name |-> <<>>, content |-> <<>>, properties |-> <<>>]
    /\ frame = NoFrame

JsonIdle == resources_data = <<>> /\ resources_by_id = <<>> /\ jpc = "idle"

NoResource ==
    [id |-> "", name |-> <<>>, parent_id |-> None, properties |-> <<>>,
     content |-> <<>>, tags |-> <<>>]

ExportIdle ==
    /\ res_in = NoResource /\ notion_text = <<>> /\ lk_resource = <<>>
    /\ lk_markdown = <<>> /\ reread = NoResource /\ wrote = {}

MainIdle ==
    /\ listing = <<>> /\ no_log = FALSE /\ mpc = "idle" /\ root_elements = <<>>
    /\ applied = <<>> /\ saved = FALSE /\ exc = None
    /\ sys_stdout = "console" /\ logger = None /\ logger_stdout = None
    /\ log_file = "none"

MoreIdle == ExportIdle /\ MainIdle

ExtIdle == NotionIdle /\ PropsIdle /\ JsonIdle /\ MoreIdle

\* Resource(id=..., name=...): parent_id None, children []; ConversionData().
\* Ids and names are arbitrary labels, so the first object's are fixed; the
\* other objects may share them or not.
Init ==
    /\ id \in {f \in [Res -> Ids] : f["r1"] = "a"}
    /\ name \in {f \in [Res -> Names] : f["r1"] = "n"}
    /\ parent_id = [r \in Res |-> None]
    /\ children = [r \in Res |-> <<>>]
    /\ resources = <<>>
    /\ calls = 0
    /\ last = NoCall
    /\ CodecIdle
    /\ NodesIdle
    /\ ExtIdle

Next ==
    \/ \E p, c \in Res : AddChild(p, c)
    \/ \E r \in Res : AddResource(r)
    \/ GetAllResources
    \/ \E x \in Ids : FindResourceById(x)
    \/ \E x \in Names : FindResourceByName(x)

Spec == Init /\ [][Next]_vars

(***************************************************************************)
(* Resource tree: derived notions used by the properties                   *)
(***************************************************************************)
ChildSet(r) == Range(children[r])

RECURSIVE Closure(_)
Closure(S) ==
    LET T == S \cup UNION {ChildSet(r) : r \in S}
    IN IF T = S THEN S ELSE Closure(T)

\* Every resource below r through children lists.
Descendants(r) == Closure(ChildSet(r))

\* Every resource of the ConversionData: the roots and all below them.
Reachable == Closure(Range(resources))

\* How often r is listed in the ConversionData: in the root list and in the
\* children lists of the resources reachable from it.
Listings(r) ==
    Count(resources, r)
    + Cardinality(UNION {{<<p, k>> : k \in {j \in 1..Len(children[p]) :
                                                children[p][j] = r}} :
                         p \in Reachable})

\* The ConversionData holds a forest: no cycle, nothing listed twice.
IsForest ==
    /\ \A r \in Reachable : r \notin Descendants(r)
    /\ \A r \in Res : Listings(r) <= 1

Pos(s, r) == CHOOSE k \in 1..Len(s) : s[k] = r

\* s lists the forest in pre-order: every reachable resource once, each one
\* before its descendants, and in every list (the roots, each children list)
\* an earlier entry and all its descendants before a later entry.
IsPreOrder(s) ==
    /\ Len(s) = Cardinality(Reachable)
    /\ Range(s) = Reachable
    /\ \A r \in Reachable : \A d \in Descendants(r) : Pos(s, r) < Pos(s, d)
    /\ \A L \in {resources} \cup {children[p] : p \in Reachable} :
         \A a, b \in 1..Len(L) :
            a < b => \A d \in {L[a]} \cup Descendants(L[a]) :
                        Pos(s, d) < Pos(s, L[b])

\* The first entry of s whose field f equals x, or None.
FirstMatch(f, x, s) ==
    IF \E k \in 1..Len(s) : f[s[k]] = x
    THEN s[CHOOSE k \in 1..Len(s) :
              /\ f[s[k]] = x
              /\ \A j \in 1..(k - 1) : f[s[j]] # x]
    ELSE None

(***************************************************************************)
(* Properties of the resource tree                                         *)
(***************************************************************************)
\* C1: after add_child(parent, child) returns, child.parent_id equals
\* parent.id and child occurs exactly once in parent.children, whatever
\* add_child calls came before.
C1_AddChildOnce ==
    last.op = "add_child" =>
        /\ parent_id[last.c] = id[last.p]
        /\ Count(children[last.p], last.c) = 1

\* C2: every resource c in the children list of a resource p has
\* c.parent_id = p.id.
C2_ChildParentId ==
    \A p \in Res : \A k \in 1..Len(children[p]) :
        parent_id[children[p][k]] = id[p]

\* C3: the resources form a forest: no resource is its own ancestor through
\* children lists and no resource is in the children list of two resources.
C3_Forest ==
    /\ \A r \in Res : r \notin Descendants(r)
    /\ \A r \in Res : Cardinality({p \in Res : r \in ChildSet(p)}) <= 1

\* C4: on a forest with N resources get_all_resources returns exactly N
\* entries in pre-order: each resource before all its descendants, siblings
\* (and roots) in list order.
C4_FlattenPreOrder ==
    (last.op = "get_all_resources" /\ IsForest) =>
        /\ ~last.raised
        /\ Len(last.all) = Cardinality(Reachable)
        /\ IsPreOrder(last.all)

\* C4 witness: get_all_resources has returned three resources of a forest in
\* which a root with a child is followed by a second root.
C4_Witness ==
    /\ last.op = "get_all_resources" /\ IsForest
    /\ Len(last.all) = 3
    /\ Len(resources) = 2
    /\ children[resources[1]] # <<>>

\* C5: find_resource_by_id(x) and find_resource_by_name(x) return the first
\* entry of get_all_resources whose id (name) is x, and None exactly when no
\* resource of the forest matches; no subtree is skipped.
C5_FindFirstInPreOrder ==
    /\ (last.op = "find_resource_by_id" /\ get_all_resources.ok) =>
          /\ ~last.raised
          /\ last.found = FirstMatch(id, last.x, get_all_resources.val)
          /\ last.found = None <=> ~\E r \in Reachable : id[r] = last.x
    /\ (last.op = "find_resource_by_name" /\ get_all_resources.ok) =>
          /\ ~last.raised
          /\ last.found = FirstMatch(name, last.x, get_all_resources.val)
          /\ last.found = None <=> ~\E r \in Reachable : name[r] = last.x

\* C5 witness: find_resource_by_id returned a resource that is not a root,
\* found below a root that does not match, in the subtree of the second root.
C5_Witness ==
    /\ last.op = "find_resource_by_id"
    /\ get_all_resources.ok
    /\ Len(resources) = 2
    /\ last.found # None
    /\ last.found \in ChildSet(resources[2])
    /\ id[resources[1]] # last.x
    /\ id[resources[2]] # last.x

\* C22: when add_child(q, c) is called for a c that is already a child of
\* another Resource p, c.parent_id becomes q.id and c is appended to
\* q.children, while p.children stays as it was: nothing but c.parent_id and
\* q.children changes, on p, on c or on any other Resource.
C22_AddChildFrame ==
    [][(/\ last'.op = "add_child"
        /\ calls' = calls + 1
        /\ \E p \in Res \ {last'.p} : last'.c \in ChildSet(p))
       => LET q == last'.p
              c == last'.c
          IN /\ parent_id'[c] = id[q]
             /\ children'[q] = Append(children[q], c)
             /\ \A r \in Res \ {q} : children'[r] = children[r]
             /\ \A r \in Res \ {c} : parent_id'[r] = parent_id[r]
             /\ id' = id /\ name' = name /\ resources' = resources]_vars

\* c was attached to p, then to q: it is in both lists and carries q's id.
C22_Witness ==
    /\ last.op = "add_child"
    /\ \E p \in Res \ {last.p, last.c} :
           /\ last.c \in ChildSet(p)
           /\ id[p] # id[last.p]
    /\ last.c # last.p
    /\ children[last.p][Len(children[last.p])] = last.c
    /\ parent_id[last.c] = id[last.p]

(***************************************************************************)
(* Strings are sequences of characters; the str methods the codec uses     *)
(***************************************************************************)
Whitespace == {" ", "\t"}

\* The backquote character (the one character a TLA+ string cannot hold).
Backtick == "BACKQUOTE"

\* str.startswith(prefix)
StartsWith(s, prefix) ==
    Len(s) >= Len(prefix) /\ SubSeq(s, 1, Len(prefix)) = prefix

\* str.lstrip(): drop leading whitespace
RECURSIVE LStrip(_)
LStrip(s) ==
    IF s # <<>> /\ Head(s) \in Whitespace THEN LStrip(Tail(s)) ELSE s

\* str.rstrip(): drop trailing whitespace
RECURSIVE RStrip(_)
RStrip(s) ==
    IF s # <<>> /\ s[Len(s)] \in Whitespace
    THEN RStrip(SubSeq(s, 1, Len(s) - 1)) ELSE s

\* str.strip()
Strip(s) == RStrip(LStrip(s))

\* str.lstrip("#")
RECURSIVE LStripHash(_)
LStripHash(s) ==
    IF s # <<>> /\ Head(s) = "#" THEN LStripHash(Tail(s)) ELSE s

\* str.split("\n"): the pieces between newlines, at least one piece; the
\* j-th piece lies between the (j-1)-th and the j-th newline.
Split(s) ==
    LET nl == {k \in 1..Len(s) : s[k] = "\n"}
        cut(j) == IF j = 0 THEN 0
                  ELSE IF j > Cardinality(nl) THEN Len(s) + 1
                  ELSE CHOOSE k \in nl : Cardinality({m \in nl : m <= k}) = j
    IN [j \in 1..(Cardinality(nl) + 1) |-> SubSeq(s, cut(j - 1) + 1, cut(j) - 1)]

\* sep.join(parts)
RECURSIVE Join(_, _)
Join(parts, sep) ==
    IF parts = <<>> THEN <<>>
    ELSE IF Len(parts) = 1 THEN parts[1]
    ELSE parts[1] \o sep \o Join(Tail(parts), sep)

\* str.find(sub) from position `from` (1-based); 0 when absent
RECURSIVE Find(_, _, _)
Find(s, sub, from) ==
    IF from + Len(sub) - 1 > Len(s) THEN 0
    ELSE IF SubSeq(s, from, from + Len(sub) - 1) = sub THEN from
    ELSE Find(s, sub, from + 1)

\* n copies of character c ('#' * n; nothing when n <= 0)
Repeat(c, n) == [k \in 1..n |-> c]

(***************************************************************************)
(* JSON values: a ProseMirror node is a dict; a field may hold anything    *)
(***************************************************************************)
Null == [k |-> "null", v |-> <<>>]
Num(n) == [k |-> "int", v |-> n]
Str(s) == [k |-> "str", v |-> s]
List(s) == [k |-> "list", v |-> s]
Dict(r) == [k |-> "dict", v |-> r]

EmptyDict == Dict(<<>>)
EmptyList == List(<<>>)

IsDict(x) == x.k = "dict"

Has(d, key) == key \in DOMAIN d.v

\* dict.get(key, default)
Get(d, key, default) == IF Has(d, key) THEN d.v[key] ELSE default

\* bool(x), for "if content_nodes:"
Truthy(x) ==
    CASE x.k = "null" -> FALSE
      [] x.k = "int" -> x.v # 0
      [] x.k = "dict" -> DOMAIN x.v # {}
      [] OTHER -> Len(x.v) > 0

Digits == <<"0", "1", "2", "3", "4", "5", "6", "7", "8", "9">>

\* What f"{x}" writes for a str, None or a one-digit number.
Format(x) ==
    CASE x.k = "str" -> x.v
      [] x.k = "null" -> <<"N", "o", "n", "e">>
      [] x.k = "int" -> <<Digits[x.v + 1]>>
      [] OTHER -> <<"{", "}">>

\* node.get("type", ""): the kind of a node, a plain string
TypeOf(node) == IF Has(node, "type") THEN node.v.type ELSE ""

\* node.get("text", ""): the text of a text node, a plain string
TextOf(node) == IF Has(node, "text") THEN node.v.text ELSE <<>>

(***************************************************************************)
(* Markdown -> nodes: LegendKeeperExporter._markdown_to_prosemirror        *)
(***************************************************************************)
TextNode(text) == Dict([type |-> "text", text |-> text])

ParagraphNode(text) ==
    Dict([type |-> "paragraph", content |-> List(<<TextNode(text)>>)])

Min(a, b) == IF a < b THEN a ELSE b

\* The heading node with the level left unclamped.
HeadingNodeMutNoClamp(level, text) ==
    Dict([type |-> "heading",
          attrs |-> Dict([level |-> Num(level)]),
          content |-> List(<<TextNode(text)>>)])

\* {"type": "heading", "attrs": {"level": min(level, 6)}, "content": [text]}
HeadingNode(level, text) ==
    Dict([type |-> "heading",
          attrs |-> Dict([level |-> Num(Min(level, 6))]),
          content |-> List(<<TextNode(text)>>)])

RuleNode == Dict([type |-> "rule"])

\* The bulletList node holding the paragraph directly, without a listItem.
BulletListNodeMutNoItem(text) ==
    Dict([type |-> "bulletList", content |-> List(<<ParagraphNode(text)>>)])

\* {"type": "bulletList", "content": [{"type": "listItem", "content":
\*  [{"type": "paragraph", "content": [{"type": "text", "text": text}]}]}]}
BulletListNode(text) ==
    Dict([type |-> "bulletList",
          content |-> List(<<Dict([type |-> "listItem",
                                   content |-> List(<<ParagraphNode(text)>>)])>>)])

BlockquoteNode(text) ==
    Dict([type |-> "blockquote", content |-> List(<<ParagraphNode(text)>>)])

RuleTexts == {<<"-", "-", "-">>, <<"*", "*", "*">>, <<"_", "_", "_">>}

BulletMarkers == {"-", "*", "+"}

StartsWithBullet(s) == s # <<>> /\ Head(s) \in BulletMarkers

\* _is_special_line
_is_special_line(line) ==
    LET stripped == Strip(line)
    IN \/ StartsWith(stripped, <<"#">>)
       \/ StartsWithBullet(stripped)
       \/ StartsWith(stripped, <<">">>)
       \/ StartsWith(stripped, <<"!", "[">>)
       \/ stripped \in RuleTexts

\* The match with its two groups taken in the wrong order.
ImageMatchMutSwap(s) ==
    LET mid == IF StartsWith(s, <<"!", "[">>) THEN Find(s, <<"]", "(">>, 3) ELSE 0
        close == IF mid = 0 THEN 0 ELSE Find(s, <<")">>, mid + 2)
    IN IF close = 0 THEN [matched |-> FALSE, alt |-> <<>>, src |-> <<>>]
       ELSE [matched |-> TRUE,
             alt |-> SubSeq(s, mid + 2, close - 1),
             src |-> SubSeq(s, 3, mid - 1)]

\* re.match(r"!\[(.*?)\]\((.*?)\)", s): the lazy groups end at the first "]("
\* and at the first ")" after it; no match when either is missing.
ImageMatch(s) ==
    LET mid == IF StartsWith(s, <<"!", "[">>) THEN Find(s, <<"]", "(">>, 3) ELSE 0
        close == IF mid = 0 THEN 0 ELSE Find(s, <<")">>, mid + 2)
    IN IF close = 0 THEN [matched |-> FALSE, alt |-> <<>>, src |-> <<>>]
       ELSE [matched |-> TRUE,
             alt |-> SubSeq(s, 3, mid - 1),
             src |-> SubSeq(s, mid + 2, close - 1)]

\* The paragraph branch leaving i at the line it started from.
ParaEndMutNoAdvance(ls, j) == j - 1

\* The inner while loop of the paragraph branch: the first index j >= k
\* (0-based) that is past the end, blank, or a special line.
RECURSIVE ParaEnd(_, _)
ParaEnd(ls, j) ==
    IF j < Len(ls) /\ Strip(ls[j + 1]) # <<>> /\ ~_is_special_line(ls[j + 1])
    THEN ParaEnd(ls, j + 1)
    ELSE j

\* The loop body with the bullet test ahead of the rule test.
LineStepMutBulletFirst(ls, k) ==
    LET line == ls[k + 1]
        stripped == Strip(line)
    IN IF stripped = <<>> THEN [emit |-> <<>>, next |-> k + 1]
       ELSE IF StartsWith(line, <<"#">>)
       THEN [emit |-> <<HeadingNode(Len(line) - Len(LStripHash(line)),
                                    Strip(LStripHash(line)))>>,
             next |-> k + 1]
       ELSE IF StartsWithBullet(stripped)
       THEN [emit |-> <<BulletListNode(Strip(Tail(stripped)))>>, next |-> k + 1]
       ELSE IF stripped \in RuleTexts
       THEN [emit |-> <<RuleNode>>, next |-> k + 1]
       ELSE IF StartsWith(stripped, <<">">>)
       THEN [emit |-> <<BlockquoteNode(Strip(Tail(stripped)))>>, next |-> k + 1]
       ELSE IF StartsWith(stripped, <<"!", "[">>)
       THEN LET m == ImageMatch(stripped)
            IN [emit |-> IF m.matched
                         THEN <<ParagraphNode(<<"!", "[">> \o m.alt \o <<"]", "(">>
                                              \o m.src \o <<")">>)>>
                         ELSE <<>>,
                next |-> k + 1]
       ELSE LET e == ParaEnd(ls, k + 1)
            IN [emit |-> <<ParagraphNode(Join(SubSeq(ls, k + 1, e), <<" ">>))>>,
                next |-> e]

\* One iteration of the main while loop at 0-based index k: the nodes it
\* appends (none or one) and the value of i it leaves.
LineStep(ls, k) ==
    LET line == ls[k + 1]
        stripped == Strip(line)
    IN IF stripped = <<>> THEN [emit |-> <<>>, next |-> k + 1]
       ELSE IF StartsWith(line, <<"#">>)
       THEN [emit |-> <<HeadingNode(Len(line) - Len(LStripHash(line)),
                                    Strip(LStripHash(line)))>>,
             next |-> k + 1]
       ELSE IF stripped \in RuleTexts
       THEN [emit |-> <<RuleNode>>, next |-> k + 1]
       ELSE IF StartsWithBullet(stripped)
       THEN [emit |-> <<BulletListNode(Strip(Tail(stripped)))>>, next |-> k + 1]
       ELSE IF StartsWith(stripped, <<">">>)
       THEN [emit |-> <<BlockquoteNode(Strip(Tail(stripped)))>>, next |-> k + 1]
       ELSE IF StartsWith(stripped, <<"!", "[">>)
       THEN LET m == ImageMatch(stripped)
            IN [emit |-> IF m.matched
                         THEN <<ParagraphNode(<<"!", "[">> \o m.alt \o <<"]", "(">>
                                              \o m.src \o <<")">>)>>
                         ELSE <<>>,
                next |-> k + 1]
       ELSE LET e == ParaEnd(ls, k + 1)
            IN [emit |-> <<ParagraphNode(Join(SubSeq(ls, k + 1, e), <<" ">>))>>,
                next |-> e]

\* The whole loop from index k on.
RECURSIVE ParseFrom(_, _)
ParseFrom(ls, k) ==
    IF k >= Len(ls) THEN <<>>
    ELSE LineStep(ls, k).emit \o ParseFrom(ls, LineStep(ls, k).next)

_markdown_to_prosemirror(text) == ParseFrom(Split(text), 0)

(***************************************************************************)
(* Nodes -> Markdown: LegendKeeperParser._process_nodes                    *)
(* A call returns Ok(text) or raises (TypeError, AttributeError): Raised.  *)
(***************************************************************************)
\* "for e in x": a list gives its elements, a str its characters, a dict
\* its keys; None and numbers are not iterable (TypeError).
Iterable(x) == x.k \in {"list", "str", "dict"}

Elements(x) ==
    CASE x.k = "list" -> x.v
      [] x.k = "str" -> [j \in 1..Len(x.v) |-> Str(<<x.v[j]>>)]
      [] x.k = "dict" -> [j \in 1..Cardinality(DOMAIN x.v) |-> Str(<<"k">>)]

\* The loop over marks of a text node: mark.get raises unless mark is a
\* dict; a link reads mark.get("attrs", {}).get("href", "").
RECURSIVE ApplyMarks(_, _)
ApplyMarks(text, ms) ==
    IF ms = <<>> THEN Ok(text)
    ELSE LET mark == Head(ms)
         IN IF ~IsDict(mark) THEN Raised
            ELSE LET mark_type == TypeOf(mark)
                     attrs == Get(mark, "attrs", EmptyDict)
                 IN CASE mark_type = "strong" ->
                           ApplyMarks(<<"*", "*">> \o text \o <<"*", "*">>, Tail(ms))
                      [] mark_type = "em" ->
                           ApplyMarks(<<"*">> \o text \o <<"*">>, Tail(ms))
                      [] mark_type = "code" ->
                           ApplyMarks(<<Backtick>> \o text \o <<Backtick>>, Tail(ms))
                      [] mark_type = "link" ->
                           IF ~IsDict(attrs) THEN Raised
                           ELSE ApplyMarks(<<"[">> \o text \o <<"]", "(">>
                                           \o Format(Get(attrs, "href", Str(<<>>)))
                                           \o <<")">>, Tail(ms))
                      [] OTHER -> ApplyMarks(text, Tail(ms))

\* The paragraph written without its blank line.
ParagraphMdMutOneNewline(para_text) == para_text \o <<"\n">>

\* f"{para_text}\n\n"
ParagraphMd(para_text) == para_text \o <<"\n", "\n">>

RECURSIVE ProcessNodes(_)
RECURSIVE ProcessSeq(_)
RECURSIVE ProcessNode(_)
RECURSIVE ProcessItems(_, _)

\* _process_nodes(nodes)
ProcessNodes(x) == IF ~Iterable(x) THEN Raised ELSE ProcessSeq(Elements(x))

\* The loop body over the nodes: anything that is not a dict is skipped.
ProcessSeq(ns) ==
    IF ns = <<>> THEN Ok(<<>>)
    ELSE LET h == IF IsDict(Head(ns)) THEN ProcessNode(Head(ns)) ELSE Ok(<<>>)
         IN IF ~h.ok THEN Raised
            ELSE LET r == ProcessSeq(Tail(ns))
                 IN IF ~r.ok THEN Raised ELSE Ok(h.val \o r.val)

\* The loop over the items of a bulletList / orderedList.
ProcessItems(items, prefix) ==
    IF items = <<>> THEN Ok(<<>>)
    ELSE IF ~IsDict(Head(items)) THEN Raised
    ELSE LET item_text == ProcessNodes(Get(Head(items), "content", EmptyList))
         IN IF ~item_text.ok THEN Raised
            ELSE LET r == ProcessItems(Tail(items), prefix)
                 IN IF ~r.ok THEN Raised
                    ELSE Ok(prefix \o <<" ">> \o item_text.val \o <<"\n">> \o r.val)

\* What one node appends to parts.
ProcessNode(node) ==
    LET node_type == TypeOf(node)
        content_nodes == Get(node, "content", EmptyList)
        inner == ProcessNodes(content_nodes)
        attrs == Get(node, "attrs", EmptyDict)
    IN CASE node_type = "text" ->
              LET marks == Get(node, "marks", EmptyList)
              IN IF ~Iterable(marks) THEN Raised
                 ELSE ApplyMarks(TextOf(node), Elements(marks))
         [] node_type = "paragraph" ->
              IF ~inner.ok THEN Raised ELSE Ok(ParagraphMd(inner.val))
         [] node_type = "heading" ->
              IF ~IsDict(attrs) THEN Raised
              ELSE LET level == Get(attrs, "level", Num(1))
                   IN IF ~inner.ok \/ level.k # "int" THEN Raised
                      ELSE Ok(Repeat("#", level.v) \o <<" ">> \o inner.val \o <<"\n">>)
         [] node_type \in {"bulletList", "orderedList"} ->
              IF ~Iterable(content_nodes) THEN Raised
              ELSE ProcessItems(Elements(content_nodes),
                                IF node_type = "bulletList"
                                THEN <<"-">> ELSE <<"1", ".">>)
         [] node_type = "listItem" -> inner
         [] node_type = "codeBlock" ->
              IF ~inner.ok THEN Raised
              ELSE Ok(<<Backtick, Backtick, Backtick, "\n">> \o inner.val \o <<"\n", Backtick, Backtick, Backtick, "\n">>)
         [] node_type = "blockquote" ->
              IF ~inner.ok THEN Raised
              ELSE Ok(<<">", " ">> \o inner.val \o <<"\n">>)
         [] node_type = "rule" -> Ok(<<"-", "-", "-", "\n">>)
         [] node_type = "mention" ->
              IF ~IsDict(attrs) THEN Raised
              ELSE Ok(<<"[", "[">> \o Format(Get(attrs, "text", Str(<<>>)))
                      \o <<"]", "]">>)
         [] node_type = "image" ->
              IF ~IsDict(attrs) THEN Raised
              ELSE Ok(<<"!", "[">> \o Format(Get(attrs, "alt", Str(<<>>)))
                      \o <<"]", "(">> \o Format(Get(attrs, "src", Str(<<>>)))
                      \o <<")", "\n">>)
         [] OTHER ->
              IF Truthy(content_nodes) THEN inner ELSE Ok(<<>>)

\* _process_nodes as the parser and its callers use it
_process_nodes(x) == ProcessNodes(x)

(***************************************************************************)
(* SpecCodec: Markdown -> nodes -> Markdown -> nodes                       *)
(***************************************************************************)
\* The lines a Markdown text is made of.
LineSet ==
    { <<>>,                                      \* blank
      <<" ">>,                                   \* whitespace only
      <<"a">>,                                   \* plain text
      <<" ", "b", " ">>,                         \* plain text, padded
      <<"#", " ", "a">>,                         \* heading, level 1
      <<"#", "#", "#", "#", "#", "#", "#", "a">>, \* seven #
      <<" ", "#">>,                              \* indented #
      <<"-", "-", "-">>,                         \* rule
      <<" ", "*", "*", "*">>,                    \* rule, indented
      <<"_", "_", "_">>,                         \* rule
      <<"-", " ", "a">>,                         \* bullet
      <<"+">>,                                   \* bare bullet marker
      <<">", " ", "a">>,                         \* blockquote
      <<"!", "[", "a", "]", "(", "b", ")", "c">>, \* image
      <<"!", "[", "a">> }                        \* image syntax, unmatched

Texts ==
    {Join(ls, <<"\n">>) : ls \in UNION {[1..n -> LineSet] : n \in 0..MaxLines}}

InitCodec ==
    /\ content \in Texts
    /\ lines = <<>> /\ i = 0 /\ nodes = <<>> /\ src = <<>>
    /\ pc = "call" /\ md = Ok(<<>>) /\ second = <<>>
    /\ TreeIdle
    /\ NodesIdle
    /\ ExtIdle

\* nodes = []; lines = content.split("\n"); i = 0
CallParse ==
    /\ pc = "call"
    /\ lines' = Split(content)
    /\ i' = 0
    /\ nodes' = <<>>
    /\ src' = <<>>
    /\ pc' = "loop"
    /\ UNCHANGED <<content, md, second, treeVars, nodeVars, extVars>>

\* One iteration of "while i < len(lines)"; src records the lines the new
\* node was made from.
LoopStep ==
    /\ pc = "loop"
    /\ i < Len(lines)
    /\ LET st == LineStep(lines, i)
       IN /\ nodes' = nodes \o st.emit
          /\ src' = IF st.emit = <<>> THEN src
                    ELSE Append(src, [from |-> i, to |-> st.next - 1])
          /\ i' = st.next
    /\ UNCHANGED <<content, lines, pc, md, second, treeVars, nodeVars, extVars>>

\* return nodes
LoopReturn ==
    /\ pc = "loop"
    /\ ~(i < Len(lines))
    /\ pc' = "returned"
    /\ UNCHANGED <<content, lines, i, nodes, src, md, second, treeVars, nodeVars, extVars>>

\* _process_nodes on the nodes the exporter wrote
Serialize ==
    /\ pc = "returned"
    /\ md' = _process_nodes(List(nodes))
    /\ pc' = "serialized"
    /\ UNCHANGED <<content, lines, i, nodes, src, second, treeVars, nodeVars, extVars>>

\* _markdown_to_prosemirror on the text the parser read back
Reparse ==
    /\ pc = "serialized"
    /\ md.ok
    /\ second' = _markdown_to_prosemirror(md.val)
    /\ pc' = "done"
    /\ UNCHANGED <<content, lines, i, nodes, src, md, treeVars, nodeVars, extVars>>

NextCodec == CallParse \/ LoopStep \/ LoopReturn \/ Serialize \/ Reparse

SpecCodec == InitCodec /\ [][NextCodec]_vars

(***************************************************************************)
(* SpecNodes: _process_nodes on what a JSON export may hold                *)
(***************************************************************************)
KnownTypes ==
    {"text", "paragraph", "heading", "bulletList", "orderedList", "listItem",
     "codeBlock", "blockquote", "rule", "mention", "image"}

\* "callout" stands for any kind the parser does not know.
NodeTypes == KnownTypes \cup {"callout"}

\* Values of the wrong type for a field, and null.
WrongVals ==
    {Null, Num(0), Num(2), Str(<<>>), Str(<<"x">>), EmptyDict,
     Dict([x |-> Null]), List(<<Null>>), List(<<Str(<<"x">>)>>)}

ContentVals ==
    WrongVals \cup {EmptyList, List(<<TextNode(<<"a">>)>>),
                    List(<<ParagraphNode(<<"a">>)>>),
                    List(<<Dict([type |-> "listItem",
                                 content |-> List(<<ParagraphNode(<<"a">>)>>)])>>),
                    List(<<Dict([type |-> "heading", attrs |-> Null])>>)}

AttrVals ==
    WrongVals \cup {Dict([level |-> v]) : v \in WrongVals \cup {Num(7)}}
              \cup {Dict([text |-> Str(<<"a">>)]),
                    Dict([src |-> Str(<<"b">>), alt |-> Str(<<"a">>)])}

MarkVals ==
    WrongVals
    \cup {List(<<Dict([type |-> t])>>) : t \in {"strong", "em", "code", "link", "u"}}
    \cup {List(<<Dict([type |-> "link", attrs |-> a])>>) :
             a \in WrongVals \cup {Dict([href |-> Str(<<"u">>)])}}
    \cup {List(<<Dict([type |-> "strong"]), Dict([type |-> "em"])>>)}

NodeSet ==
    {EmptyDict}
    \cup {Dict([type |-> t]) : t \in NodeTypes}
    \cup {Dict([type |-> t, content |-> c]) : t \in NodeTypes, c \in ContentVals}
    \cup {Dict([type |-> t, attrs |-> a]) : t \in {"heading", "mention", "image"},
                                            a \in AttrVals}
    \cup {Dict([type |-> "text", text |-> <<"a">>, marks |-> m]) : m \in MarkVals}

DocSet == WrongVals \cup {EmptyList} \cup {List(<<n>>) : n \in NodeSet}

InitNodes ==
    /\ doc \in DocSet
    /\ out = Ok(<<>>)
    /\ called = FALSE
    /\ TreeIdle
    /\ CodecIdle
    /\ ExtIdle

\* self._process_nodes(content_nodes): returns a string or raises
CallProcessNodes ==
    /\ ~called
    /\ out' = _process_nodes(doc)
    /\ called' = TRUE
    /\ UNCHANGED <<doc, treeVars, codecVars, extVars>>

NextNodes == CallProcessNodes

SpecNodes == InitNodes /\ [][NextNodes]_vars

(***************************************************************************)
(* Properties of the codec                                                 *)
(***************************************************************************)
\* All text leaves below a value, in order.
RECURSIVE LeafText(_)
LeafText(x) ==
    CASE x.k = "list" -> Concat([j \in 1..Len(x.v) |-> LeafText(x.v[j])])
      [] x.k = "dict" ->
            IF TypeOf(x) = "text" THEN TextOf(x)
            ELSE IF Has(x, "content") THEN LeafText(x.v.content)
            ELSE <<>>
      [] OTHER -> <<>>

NoWhitespace(s) == SelectSeq(s, LAMBDA c : c \notin Whitespace)

\* The block kinds of a node list with each block's text, whitespace aside.
Blocks(ns) ==
    [n \in 1..Len(ns) |-> <<TypeOf(ns[n]), NoWhitespace(LeafText(ns[n]))>>]

\* The number of leading '#' characters of a line.
LeadingHashes(line) ==
    CHOOSE h \in 0..Len(line) :
        /\ \A j \in 1..h : line[j] = "#"
        /\ h = Len(line) \/ line[h + 1] # "#"

\* The nodes made from the 0-based line k.
NodesOfLine(k) == {n \in 1..Len(nodes) : src[n].from <= k /\ k <= src[n].to}

\* C6: parsing a Markdown text, serializing the nodes with _process_nodes and
\* parsing the result again gives the same sequence of block kinds with the
\* same text per block as the first parse, whitespace aside.
C6_RoundTrip ==
    pc = "done" => md.ok /\ Blocks(second) = Blocks(nodes)

\* C6 witness: the round trip has run on a text made of a heading and a
\* two-line paragraph, which the serializer writes on one line.
C6_Witness ==
    /\ pc = "done"
    /\ Len(lines) = 3
    /\ [n \in 1..Len(nodes) |-> TypeOf(nodes[n])] = <<"heading", "paragraph">>
    /\ src[2].to = src[2].from + 1
    /\ md.val # content

\* C7: _process_nodes returns a string for every node list, also for nodes
\* with missing, null or wrongly typed fields; it never raises.
C7_NeverRaises == called => out.ok

\* C8: a node of an unrecognized kind contributes exactly the serialization
\* of its content list when it has one and the empty string when it has
\* none, and never raises.
C8_UnknownKind ==
    (/\ called
     /\ doc.k = "list" /\ Len(doc.v) = 1
     /\ IsDict(doc.v[1])
     /\ TypeOf(doc.v[1]) \notin KnownTypes) =>
        /\ out.ok
        /\ IF Has(doc.v[1], "content") /\ doc.v[1].v.content.k = "list"
           THEN out = _process_nodes(doc.v[1].v.content)
           ELSE out.val = <<>>

\* C9: every heading node has a level in 1..6, the number of leading '#' of
\* its line or 6 when that is 7 or more, and its text is the rest of the
\* line trimmed.
C9_HeadingLevel ==
    \A n \in 1..Len(nodes) :
        TypeOf(nodes[n]) = "heading" =>
            LET line == lines[src[n].from + 1]
                h == LeadingHashes(line)
                level == nodes[n].v.attrs.v.level
            IN /\ level.k = "int"
               /\ level.v \in 1..6
               /\ level.v = IF h >= 7 THEN 6 ELSE h
               /\ LeafText(nodes[n]) = Strip(SubSeq(line, h + 1, Len(line)))

\* C9 witness: a heading node made from a line with seven '#'.
C9_Witness ==
    \E n \in 1..Len(nodes) :
        /\ TypeOf(nodes[n]) = "heading"
        /\ LeadingHashes(lines[src[n].from + 1]) = 7
        /\ nodes[n].v.attrs.v.level.v = 6

\* C10: every line whose trimmed text is '---', '***' or '___' makes exactly
\* one node, a rule node without content, made from that line alone,
\* whatever lines come before or after it.
C10_RuleLine ==
    \A k \in 0..(i - 1) :
        Strip(lines[k + 1]) \in RuleTexts =>
            /\ Cardinality(NodesOfLine(k)) = 1
            /\ \A n \in NodesOfLine(k) :
                  /\ TypeOf(nodes[n]) = "rule"
                  /\ ~Has(nodes[n], "content")
                  /\ src[n].from = k /\ src[n].to = k

\* C10 witness: a rule line right after a paragraph line and before another
\* line has been parsed into a rule node.
C10_Witness ==
    /\ pc = "returned"
    /\ Len(lines) = 3
    /\ lines[1] = <<"a">>
    /\ Strip(lines[2]) \in RuleTexts
    /\ Strip(lines[3]) # <<>>
    /\ Len(nodes) = 3
    /\ TypeOf(nodes[2]) = "rule"

\* The branch the main loop takes on a line met at the top of the loop.
LineKind(line) ==
    LET stripped == Strip(line)
    IN CASE stripped = <<>> -> "blank"
         [] OTHER ->
            IF StartsWith(line, <<"#">>) THEN "heading"
            ELSE IF stripped \in RuleTexts THEN "rule"
            ELSE IF StartsWithBullet(stripped) THEN "bullet"
            ELSE IF StartsWith(stripped, <<">">>) THEN "blockquote"
            ELSE IF StartsWith(stripped, <<"!", "[">>) THEN "image"
            ELSE "text"

\* The node list of a value that is a content list, else the empty list.
ContentOf(node) ==
    IF IsDict(node) /\ Has(node, "content") /\ node.v.content.k = "list"
    THEN node.v.content.v ELSE <<>>

\* node is {"type": "paragraph", "content": [{"type": "text", "text": text}]}
\* with nothing else in it.
IsParagraphOf(node, text) ==
    /\ IsDict(node)
    /\ DOMAIN node.v = {"type", "content"}
    /\ TypeOf(node) = "paragraph"
    /\ Len(ContentOf(node)) = 1
    /\ DOMAIN ContentOf(node)[1].v = {"type", "text"}
    /\ TypeOf(ContentOf(node)[1]) = "text"
    /\ TextOf(ContentOf(node)[1]) = text

\* C11: every line whose trimmed text begins with '-', '*' or '+' and is not
\* a rule line makes its own bulletList node, holding exactly one listItem
\* holding exactly one paragraph whose text is the trimmed remainder after
\* the marker; consecutive bullet lines make one node each, never a merged
\* list.
C11_BulletLine ==
    \A k \in 0..(i - 1) :
        LET stripped == Strip(lines[k + 1])
        IN (StartsWithBullet(stripped) /\ stripped \notin RuleTexts) =>
            /\ Cardinality(NodesOfLine(k)) = 1
            /\ \A n \in NodesOfLine(k) :
                  /\ src[n].from = k /\ src[n].to = k
                  /\ TypeOf(nodes[n]) = "bulletList"
                  /\ Len(ContentOf(nodes[n])) = 1
                  /\ TypeOf(ContentOf(nodes[n])[1]) = "listItem"
                  /\ Len(ContentOf(ContentOf(nodes[n])[1])) = 1
                  /\ IsParagraphOf(ContentOf(ContentOf(nodes[n])[1])[1],
                                   Strip(SubSeq(stripped, 2, Len(stripped))))

\* C11 witness: two consecutive bullet lines, the second a bare marker, have
\* been parsed into two bulletList nodes after a first line of another kind.
C11_Witness ==
    /\ pc = "returned"
    /\ Len(lines) = 3
    /\ lines[2] = <<"-", " ", "a">>
    /\ lines[3] = <<"+">>
    /\ Len(nodes) = 3
    /\ TypeOf(nodes[2]) = "bulletList" /\ LeafText(nodes[2]) = <<"a">>
    /\ TypeOf(nodes[3]) = "bulletList" /\ LeafText(nodes[3]) = <<>>

\* The maximal runs of consecutive lines that the main loop, meeting each at
\* the top of the loop, takes to the paragraph branch: pairs of 0-based
\* first and last index.
TextRuns ==
    {r \in (0..(Len(lines) - 1)) \X (0..(Len(lines) - 1)) :
        /\ r[1] <= r[2]
        /\ \A k \in r[1]..r[2] : LineKind(lines[k + 1]) = "text"
        /\ r[1] = 0 \/ LineKind(lines[r[1]]) # "text"
        /\ r[2] = Len(lines) - 1 \/ LineKind(lines[r[2] + 2]) # "text"}

\* C12: a maximal run of consecutive non-blank lines, none of them a
\* heading, rule, bullet, blockquote or image line on its own, makes exactly
\* one paragraph node whose text is those lines joined with single spaces;
\* the run ends only at a blank line, at the end of the input or at a line
\* emitted as one of those kinds.
C12_ParagraphRun ==
    pc = "returned" =>
        \A r \in TextRuns :
            \E n \in 1..Len(nodes) :
                /\ src[n].from = r[1] /\ src[n].to = r[2]
                /\ \A k \in r[1]..r[2] : NodesOfLine(k) = {n}
                /\ IsParagraphOf(nodes[n],
                                 Join(SubSeq(lines, r[1] + 1, r[2] + 1), <<" ">>))

\* The prefixes of s of the form ![alt](src).
ImageForms(s) ==
    {SubSeq(s, 1, q) : q \in {q \in 1..Len(s) :
        /\ StartsWith(s, <<"!", "[">>)
        /\ s[q] = ")"
        /\ \E p \in 3..(q - 2) : SubSeq(s, p, p + 1) = <<"]", "(">>}}

\* C13: a line beginning with '![' that matches the form ![alt](src) makes
\* exactly one node, a paragraph whose text is the literal ![alt](src) of
\* that line, and never an image node.
C13_ImageLine ==
    \A k \in 0..(i - 1) :
        LET stripped == Strip(lines[k + 1])
        IN ImageForms(stripped) # {} =>
            /\ Cardinality(NodesOfLine(k)) = 1
            /\ \A n \in NodesOfLine(k) :
                  /\ src[n].from = k /\ src[n].to = k
                  /\ TypeOf(nodes[n]) # "image"
                  /\ \E t \in ImageForms(stripped) : IsParagraphOf(nodes[n], t)

\* C13 witness: an image line between two other lines has been parsed into a
\* paragraph holding ![a](b).
C13_Witness ==
    /\ pc = "returned"
    /\ Len(lines) = 3
    /\ lines[1] = <<"a">>
    /\ ImageForms(lines[2]) # {}
    /\ Len(nodes) >= 2
    /\ LeafText(nodes[2]) = <<"!", "[", "a", "]", "(", "b", ")">>
    /\ src[2].from = 1

\* A call of _markdown_to_prosemirror that has started keeps executing its
\* statements: the run is sequential and nothing can suspend it.
\* One line for every branch of the loop body
LoopLineSet ==
    { <<>>, <<"a">>, <<" ", "b", " ">>, <<"#", " ", "a">>, <<"-", "-", "-">>,
      <<"-", " ", "a">>, <<">", " ", "a">>,
      <<"!", "[", "a", "]", "(", "b", ")", "c">>, <<"!", "[", "a">> }

InitCodecLoop ==
    /\ content \in {Join(ls, <<"\n">>) :
                       ls \in UNION {[1..n -> LoopLineSet] : n \in 0..MaxLines}}
    /\ lines = <<>> /\ i = 0 /\ nodes = <<>> /\ src = <<>>
    /\ pc = "call" /\ md = Ok(<<>>) /\ second = <<>>
    /\ TreeIdle
    /\ NodesIdle
    /\ ExtIdle

FairSpecCodec ==
    /\ InitCodecLoop
    /\ [][NextCodec]_vars
    /\ WF_vars(CallParse \/ LoopStep \/ LoopReturn)

\* The lines of no node: consumed by an iteration that appends nothing.
Unused == {k \in 0..(i - 1) : \A n \in 1..Len(src) : k < src[n].from \/ k > src[n].to}

\* What the loop has consumed so far: every node comes from its own run of
\* lines, the runs are in order and apart, a run of more than one line is a
\* paragraph of exactly those lines, and a line of no node is blank or an
\* image line the pattern does not match.
ConsumedOnce ==
    /\ Len(src) = Len(nodes)
    /\ \A n \in 1..Len(src) : 0 <= src[n].from /\ src[n].from <= src[n].to /\ src[n].to < i
    /\ \A a, b \in 1..Len(src) : a < b => src[a].to < src[b].from
    /\ \A n \in 1..Len(src) :
           IF TypeOf(nodes[n]) = "paragraph" /\ ImageForms(Strip(lines[src[n].from + 1])) = {}
           THEN LeafText(nodes[n]) = Join(SubSeq(lines, src[n].from + 1, src[n].to + 1), <<" ">>)
           ELSE /\ src[n].from = src[n].to
                /\ \/ LeafText(nodes[n]) = <<>>
                   \/ Find(lines[src[n].from + 1], LeafText(nodes[n]), 1) # 0
    /\ \A k \in Unused : Strip(lines[k + 1]) = <<>> \/ StartsWith(Strip(lines[k + 1]), <<"!", "[">>)

\* C23: _markdown_to_prosemirror terminates on every input: every iteration
\* of the main loop, the paragraph loop inside it included, leaves the line
\* index strictly larger and never past the end, every line is consumed
\* exactly once and the text of a line goes into at most one node; the call
\* returns, with every line consumed.
C23_Terminates ==
    /\ [](pc = "loop" => /\ i <= Len(lines)
                         /\ i < Len(lines) => /\ LineStep(lines, i).next > i
                                              /\ LineStep(lines, i).next <= Len(lines)
                         /\ ConsumedOnce)
    /\ [](pc = "returned" => i = Len(lines) /\ ConsumedOnce)
    /\ [][pc = "loop" /\ pc' = "loop" => i' >= i]_vars
    /\ <>(pc = "returned")

\* A paragraph of two lines, a line without node and a heading were consumed.
C23_Witness ==
    /\ pc = "returned"
    /\ Len(lines) >= 3
    /\ Len(nodes) = 1
    /\ src[1].from = 0 /\ src[1].to = 1
    /\ Unused = {2}

(***************************************************************************)
(* Notion file names: src/src/notion_parser.py                             *)
(***************************************************************************)
UpperCase ==
    <<"A", "B", "C", "D", "E", "F", "G", "H", "I", "J", "K", "L", "M",
      "N", "O", "P", "Q", "R", "S", "T", "U", "V", "W", "X", "Y", "Z">>

LowerCase ==
    <<"a", "b", "c", "d", "e", "f", "g", "h", "i", "j", "k", "l", "m",
      "n", "o", "p", "q", "r", "s", "t", "u", "v", "w", "x", "y", "z">>

\* str.lower()
Lower(s) ==
    [k \in 1..Len(s) |->
        IF s[k] \in Range(UpperCase)
        THEN LowerCase[CHOOSE j \in 1..Len(UpperCase) : UpperCase[j] = s[k]]
        ELSE s[k]]

\* str.replace(" ", "_")
ReplaceSpaces(s) == [k \in 1..Len(s) |-> IF s[k] = " " THEN "_" ELSE s[k]]

\* The character class [a-f0-9]
HexChars ==
    {"0", "1", "2", "3", "4", "5", "6", "7", "8", "9", "a", "b", "c", "d", "e", "f"}

\* The repetition count of [a-f0-9]{32}
TokenLen == 32

\* [a-f0-9]{32}$ : the last 32 characters, when all are lower-case hex
EndsWithHex(s) ==
    /\ Len(s) >= TokenLen
    /\ \A k \in (Len(s) - TokenLen + 1)..Len(s) : s[k] \in HexChars

AllWhitespace(s) == \A k \in 1..Len(s) : s[k] \in Whitespace

\* re.match(r"^(.+?)\s+[a-f0-9]{32}$", filename): group 1 is the shortest
\* non-empty prefix that leaves only whitespace (at least one) before the 32
\* hex digits; on a match return match.group(1).strip(), else the filename.
_extract_name_from_filename(filename) ==
    LET before == SubSeq(filename, 1, Len(filename) - TokenLen)
        cuts == {j \in 1..(Len(before) - 1) :
                    AllWhitespace(SubSeq(before, j + 1, Len(before)))}
    IN IF EndsWithHex(filename) /\ cuts # {}
       THEN Strip(SubSeq(before, 1, CHOOSE j \in cuts : \A h \in cuts : j <= h))
       ELSE filename

\* re.search(r"[a-f0-9]{32}$", filename): match.group(0) on a match, else
\* filename.lower().replace(" ", "_")
_extract_id_from_filename(filename) ==
    IF EndsWithHex(filename)
    THEN SubSeq(filename, Len(filename) - TokenLen + 1, Len(filename))
    ELSE ReplaceSpaces(Lower(filename))

(***************************************************************************)
(* Properties from a page body: NotionParser._extract_properties           *)
(***************************************************************************)
\* str.strip() of a text of several lines: newlines are whitespace too.
RECURSIVE StripText(_)
StripText(s) ==
    IF s # <<>> /\ Head(s) \in Whitespace \cup {"\n"} THEN StripText(Tail(s))
    ELSE IF s # <<>> /\ s[Len(s)] \in Whitespace \cup {"\n"}
    THEN StripText(SubSeq(s, 1, Len(s) - 1))
    ELSE s

\* The 20 of range(content_start_idx, min(content_start_idx + 20, len(lines)))
ScanLimit == 20

Letters == Range(UpperCase) \cup Range(LowerCase)

\* re.match(r"^([A-Z][a-zA-Z\s]+):\s+(.+)$", line) on a stripped line: the
\* key runs to the first colon (a colon is no key character) and has at least
\* two characters; at least one whitespace and one more character follow.
\* key = match.group(1).strip(), value = match.group(2).strip()
PropertyMatch(line) ==
    LET c == Find(line, <<":">>, 1)
        rest == LStrip(SubSeq(line, c + 1, Len(line)))
    IN IF /\ c >= 3
          /\ line[1] \in Range(UpperCase)
          /\ \A k \in 2..(c - 1) : line[k] \in Letters \cup Whitespace
          /\ c < Len(line)
          /\ line[c + 1] \in Whitespace
          /\ rest # <<>>
       THEN [matched |-> TRUE, key |-> Strip(SubSeq(line, 1, c - 1)),
             value |-> Strip(rest)]
       ELSE [matched |-> FALSE, key |-> <<>>, value |-> <<>>]

\* resource.properties[key] = value: a dict keeps the place of a key it has
SetItem(props, key, value) ==
    IF \E k \in 1..Len(props) : props[k].key = key
    THEN [k \in 1..Len(props) |->
             IF props[k].key = key THEN [key |-> key, value |-> value]
             ELSE props[k]]
    ELSE Append(props, [key |-> key, value |-> value])

\* The statements before the for loop: split the content, skip a first line
\* that is a "# " heading, skip one empty line after it.
ExtractEnter(pg) ==
    LET ls == Split(pg.content)
        afterTitle == IF StartsWith(Strip(ls[1]), <<"#", " ">>) THEN 1 ELSE 0
        start == IF afterTitle < Len(ls) /\ Strip(ls[afterTitle + 1]) = <<>>
                 THEN afterTitle + 1 ELSE afterTitle
    IN [page |-> pg,
        frame |-> [pc |-> "loop", lines |-> ls, content_start_idx |-> start,
                   property_end_idx |-> start, i |-> start, captured |-> {}]]

\* The scan running to the end of the body (no limit of 20 lines).
ScanEndMutNoLimit(fr) == Len(fr.lines)

\* The end of range(content_start_idx, min(content_start_idx + 20, len(lines)))
ScanEnd(fr) == Min(fr.content_start_idx + ScanLimit, Len(fr.lines))

\* One iteration of the for loop, at index fr.i; a break leaves the loop.
ExtractIter(pg, fr) ==
    LET line == Strip(fr.lines[fr.i + 1])
        m == PropertyMatch(line)
        found == fr.property_end_idx > fr.content_start_idx
    IN IF line = <<>>
       THEN IF found
            THEN [page |-> pg,
                  frame |-> [fr EXCEPT !.property_end_idx = fr.i + 1,
                                       !.pc = "after"]]
            ELSE [page |-> pg, frame |-> [fr EXCEPT !.i = fr.i + 1]]
       ELSE IF m.matched
       THEN [page |-> [pg EXCEPT !.properties = SetItem(@, m.key, m.value)],
             frame |-> [fr EXCEPT !.property_end_idx = fr.i + 1,
                                  !.i = fr.i + 1,
                                  !.captured = @ \cup {fr.i}]]
       ELSE IF found
       THEN [page |-> pg, frame |-> [fr EXCEPT !.pc = "after"]]
       ELSE [page |-> pg, frame |-> [fr EXCEPT !.i = fr.i + 1]]

\* The content kept from content_start_idx on: the property lines stay in it.
ExtractFinishMutKeepProps(pg, fr) ==
    [page |-> [pg EXCEPT !.content =
                  StripText(Join(SubSeq(fr.lines, fr.content_start_idx + 1,
                                        Len(fr.lines)), <<"\n">>))],
     frame |-> [fr EXCEPT !.pc = "done"]]

\* resource.content = "\n".join(lines[property_end_idx:]).strip()
ExtractFinish(pg, fr) ==
    [page |-> [pg EXCEPT !.content =
                  StripText(Join(SubSeq(fr.lines, fr.property_end_idx + 1,
                                        Len(fr.lines)), <<"\n">>))],
     frame |-> [fr EXCEPT !.pc = "done"]]

\* One step of _extract_properties from a state of it.
ExtractStep(pg, fr) ==
    CASE fr.pc = "loop" /\ fr.i < ScanEnd(fr) -> ExtractIter(pg, fr)
      [] fr.pc = "loop" -> [page |-> pg, frame |-> [fr EXCEPT !.pc = "after"]]
      [] fr.pc = "after" -> ExtractFinish(pg, fr)

RECURSIVE ExtractRun(_, _)
ExtractRun(pg, fr) ==
    IF fr.pc = "done" THEN pg
    ELSE ExtractRun(ExtractStep(pg, fr).page, ExtractStep(pg, fr).frame)

\* _extract_properties(resource): the resource as the call leaves it
_extract_properties(pg) ==
    ExtractRun(ExtractEnter(pg).page, ExtractEnter(pg).frame)

(***************************************************************************)
(* SpecNotion: NotionParser.parse_directory on a directory of *.md files   *)
(* (no CSV files, no subdirectories)                                       *)
(***************************************************************************)
\* 32 lower-case hex digits, and strings that only look like such a token.
TokenA == [k \in 1..TokenLen |-> "a"]
TokenB == [k \in 1..TokenLen |-> IF k = 1 THEN "0" ELSE "f"]
TokenShort == [k \in 1..(TokenLen - 1) |-> "a"]
TokenUpper == [k \in 1..TokenLen |-> IF k = 1 THEN "A" ELSE "a"]

\* File name stems: what comes first, what separates it from the end, the end.
StemSet ==
    {a \o b \o c :
        a \in {<<>>, <<"P">>, <<"p">>, <<"A", " ", "b">>, <<"a", "_", "b">>},
        b \in {<<>>, <<" ">>, <<"\t", " ">>},
        c \in {<<>>, TokenA, TokenB, TokenShort, TokenUpper}} \ {<<>>}

\* What the files hold.
PageTexts == {<<>>, <<"A", "b", ":", " ", "c">>}

FileSet == {[stem |-> st, text |-> t] : st \in StemSet, t \in PageTexts}

\* The files of one directory have different names.
InitNotion ==
    /\ md_files \in {fs \in UNION {[1..n -> FileSet] : n \in 1..MaxFiles} :
                        \A j, k \in 1..Len(fs) : j # k => fs[j].stem # fs[k].stem}
    /\ pages = <<>>
    /\ TreeIdle /\ CodecIdle /\ NodesIdle /\ PropsIdle /\ JsonIdle /\ MoreIdle

\* _parse_page(md_file, base_dir): the Resource built from the stem and the
\* file's text, after _extract_properties; the page has no subdirectory.
_parse_page(md_file) ==
    LET r == _extract_properties(
                 [name |-> _extract_name_from_filename(md_file.stem),
                  content |-> md_file.text,
                  properties |-> <<>>])
    IN [id |-> _extract_id_from_filename(md_file.stem),
        name |-> r.name, content |-> r.content, properties |-> r.properties]

\* One iteration of "for md_file in md_files": resource = _parse_page(...);
\* data.add_resource(resource)
ParsePage ==
    /\ Len(pages) < Len(md_files)
    /\ pages' = Append(pages, _parse_page(md_files[Len(pages) + 1]))
    /\ UNCHANGED <<md_files, treeVars, codecVars, nodeVars, propVars, jsonVars,
                   moreVars>>

NextNotion == ParsePage

SpecNotion == InitNotion /\ [][NextNotion]_vars

(***************************************************************************)
(* Properties of the Notion reader                                         *)
(***************************************************************************)
IsToken(s) == Len(s) = TokenLen /\ \A k \in 1..Len(s) : s[k] \in HexChars

\* The stem ends in whitespace followed by a 32-character hex token.
EndsInSpaceToken(stem) ==
    /\ Len(stem) > TokenLen
    /\ IsToken(SubSeq(stem, Len(stem) - TokenLen + 1, Len(stem)))
    /\ stem[Len(stem) - TokenLen] \in Whitespace

Contains(s, sub) == Find(s, sub, 1) # 0

\* C14: from the stem N + whitespace + T, T a 32-character hex token, the
\* name is N and the id is T; from a stem that does not end in whitespace and
\* such a token the name is the stem unchanged and no token is extracted: the
\* id is made from the name (lower case, spaces to underscores).
C14_NameAndId ==
    \A k \in 1..Len(pages) :
        LET stem == md_files[k].stem
            N == Strip(SubSeq(stem, 1, Len(stem) - TokenLen))
            T == SubSeq(stem, Len(stem) - TokenLen + 1, Len(stem))
        IN IF EndsInSpaceToken(stem)
           THEN N # <<>> => pages[k].name = N /\ pages[k].id = T
           ELSE /\ pages[k].name = stem
                /\ pages[k].id = ReplaceSpaces(Lower(pages[k].name))

\* C15: the name of a Resource built by _parse_page does not contain the hex
\* token that was taken from the stem as its id.
C15_NameWithoutToken ==
    \A k \in 1..Len(pages) :
        (IsToken(pages[k].id) /\ Contains(md_files[k].stem, pages[k].id)) =>
            ~Contains(pages[k].name, pages[k].id)

\* C16: no two resources of the forest a reader returns have the same id.
C16_UniqueIds ==
    Len(pages) = Len(md_files) =>
        \A j, k \in 1..Len(pages) : j # k => pages[j].id # pages[k].id

(***************************************************************************)
(* SpecProps: NotionParser._extract_properties on a page body, statement   *)
(* by statement                                                            *)
(***************************************************************************)
\* The name of the page.
PageName == <<"T">>

\* How a body starts: with nothing, with the page's title, with the title and
\* an empty line, with another title, with an empty line before the title.
HeadSet ==
    { <<>>,
      << <<"#", " ", "T">> >>,
      << <<"#", " ", "T">>, <<>> >>,
      << <<"#", " ", "U">>, <<>> >>,
      << <<>>, <<"#", " ", "T">> >> }

\* The j-th of a run of lines: plain text, or a property "Kx: v" whose key
\* ends in the j-th letter, or the same but for the first, whose key is "K".
FillLine(kind, j) ==
    CASE kind = "text" -> <<"x">>
      [] kind = "props" -> <<"K", LowerCase[j], ":", " ", "v">>
      [] kind = "short" -> IF j = 1 THEN <<"K", ":", " ", "v">>
                           ELSE <<"K", LowerCase[j], ":", " ", "v">>

\* The lengths of the runs: short ones, and ones around the scan limit.
FillLens == (0..2) \cup ((ScanLimit - 2)..MaxFill)

FillSet ==
    {[j \in 1..n |-> FillLine(kind, j)] :
        kind \in {"text", "props", "short"}, n \in FillLens}

\* The last lines of a body: empty, text, a property, a colon without a
\* space after it, a property with spaces around it.
TailLines ==
    { <<>>,
      <<"b">>,
      <<"O", "w", ":", " ", "v">>,
      <<"O", "w", ":", "v">>,
      <<" ", "A", "b", " ", ":", " ", "c", " ", "d", " ">> }

TailSet == UNION {[1..n -> TailLines] : n \in 0..MaxTail}

BodySet ==
    {Join(h \o f \o t, <<"\n">>) : h \in HeadSet, f \in FillSet, t \in TailSet}

\* resource = Resource(id=page_id, name=name, content=content)
InitProps ==
    /\ page \in {[name |-> PageName, content |-> b, properties |-> <<>>] :
                    b \in BodySet}
    /\ frame = [NoFrame EXCEPT !.pc = "call"]
    /\ TreeIdle /\ CodecIdle /\ NodesIdle /\ NotionIdle /\ JsonIdle /\ MoreIdle

EnterExtract ==
    /\ frame.pc = "call"
    /\ page' = ExtractEnter(page).page
    /\ frame' = ExtractEnter(page).frame
    /\ UNCHANGED <<treeVars, codecVars, nodeVars, notionVars, jsonVars,
                   moreVars>>

\* One iteration of the for loop
IterExtract ==
    /\ frame.pc = "loop"
    /\ frame.i < ScanEnd(frame)
    /\ page' = ExtractStep(page, frame).page
    /\ frame' = ExtractStep(page, frame).frame
    /\ UNCHANGED <<treeVars, codecVars, nodeVars, notionVars, jsonVars,
                   moreVars>>

\* The range is used up
ExitLoop ==
    /\ frame.pc = "loop"
    /\ ~(frame.i < ScanEnd(frame))
    /\ page' = ExtractStep(page, frame).page
    /\ frame' = ExtractStep(page, frame).frame
    /\ UNCHANGED <<treeVars, codecVars, nodeVars, notionVars, jsonVars,
                   moreVars>>

\* The assignment to resource.content after the loop
FinishExtract ==
    /\ frame.pc = "after"
    /\ page' = ExtractStep(page, frame).page
    /\ frame' = ExtractStep(page, frame).frame
    /\ UNCHANGED <<treeVars, codecVars, nodeVars, notionVars, jsonVars,
                   moreVars>>

NextProps == EnterExtract \/ IterExtract \/ ExitLoop \/ FinishExtract

SpecProps == InitProps /\ [][NextProps]_vars

(***************************************************************************)
(* Properties of _extract_properties                                       *)
(***************************************************************************)
\* The lines of the body as it was handed over.
BodyLines == frame.lines

\* A line "Key: value": an upper-case letter, then letters and spaces up to
\* a colon, whitespace, and a value.
IsKeyValue(line) ==
    LET c == Find(line, <<":">>, 1)
    IN /\ c >= 2
       /\ line[1] \in Range(UpperCase)
       /\ \A k \in 2..(c - 1) : line[k] \in Letters \cup {" "}
       /\ c < Len(line)
       /\ line[c + 1] \in Whitespace
       /\ Strip(SubSeq(line, c + 1, Len(line))) # <<>>

KeyOf(line) == Strip(SubSeq(line, 1, Find(line, <<":">>, 1) - 1))

ValueOf(line) == Strip(SubSeq(line, Find(line, <<":">>, 1) + 1, Len(line)))

\* A level-1 heading line.
IsTitle(line) == StartsWith(line, <<"#", " ">>) /\ Strip(LStripHash(line)) # <<>>

\* The body is a title, an empty line, k "Key: value" lines with distinct
\* keys, an empty line and one line of body text.
IsTitlePropsBody(ls, k) ==
    /\ k >= 1
    /\ Len(ls) = k + 4
    /\ IsTitle(ls[1])
    /\ ls[2] = <<>>
    /\ \A j \in 3..(k + 2) : IsKeyValue(ls[j])
    /\ \A j, h \in 3..(k + 2) : j # h => KeyOf(ls[j]) # KeyOf(ls[h])
    /\ ls[k + 3] = <<>>
    /\ ls[k + 4] # <<>> /\ Strip(ls[k + 4]) = ls[k + 4]

\* The properties are the k pairs of lines 3..k+2 in line order and the
\* content is the last line.
PropsAndBodyOf(ls, k) ==
    /\ page.properties =
          [j \in 1..k |-> [key |-> KeyOf(ls[j + 2]), value |-> ValueOf(ls[j + 2])]]
    /\ page.content = ls[k + 4]

FirstNonBlank(ls) ==
    IF \A k \in 1..Len(ls) : Strip(ls[k]) = <<>> THEN <<>>
    ELSE ls[CHOOSE k \in 1..Len(ls) :
               /\ Strip(ls[k]) # <<>>
               /\ \A j \in 1..(k - 1) : Strip(ls[j]) = <<>>]

\* C18: properties are captured only when the first non-blank line of the
\* body is a level-1 heading whose text is the resource's own name.
C18_OnlyUnderOwnTitle ==
    (frame.pc = "done" /\ page.properties # <<>>) =>
        LET first == FirstNonBlank(BodyLines)
        IN /\ StartsWith(first, <<"#">>) /\ ~StartsWith(first, <<"#", "#">>)
           /\ Strip(LStripHash(first)) = page.name

\* Where the scan starts: after a first line that is a "# " heading and after
\* one empty line that follows it (or that is the first line).
ScanStart(ls) ==
    LET t == IF StartsWith(Strip(ls[1]), <<"#", " ">>) THEN 1 ELSE 0
    IN IF t < Len(ls) /\ Strip(ls[t + 1]) = <<>> THEN t + 1 ELSE t

\* The captured lines are consecutive: after a captured line the scan stops
\* at the first blank line and at the first line of another form.
CapturedConsecutive ==
    \A a, b \in frame.captured : \A m \in a..b : m \in frame.captured

\* C19 as claimed: no line further than 20 lines after the heading is
\* captured, and once a property has been captured the scan stops at the
\* first blank line and at the first line that is not Key: value, so that no
\* later Key: value line is captured.
C19_Original ==
    (frame.pc # "call" /\ IsTitle(Strip(BodyLines[1]))) =>
        /\ \A c \in frame.captured : c <= ScanLimit
        /\ CapturedConsecutive

\* C19 amended: no line further than 20 lines after the start of the scan,
\* which is past the heading and past the empty line that may follow it, is
\* captured (the 20 lines are counted from there, not from the heading), and
\* the captured lines are consecutive.
C19_ScanBounded ==
    frame.pc # "call" =>
        /\ \A c \in frame.captured :
              /\ ScanStart(BodyLines) <= c
              /\ c < ScanStart(BodyLines) + ScanLimit
        /\ CapturedConsecutive

\* C19 witness: the last line within the limit was captured, 21 lines after
\* the heading, and a Key: value line after it was not.
C19_Witness ==
    /\ frame.pc = "done"
    /\ IsTitle(BodyLines[1])
    /\ ScanStart(BodyLines) + ScanLimit - 1 \in frame.captured
    /\ ScanStart(BodyLines) + ScanLimit - 1 > ScanLimit
    /\ \E k \in 1..Len(BodyLines) :
          /\ k - 1 >= ScanStart(BodyLines) + ScanLimit
          /\ IsKeyValue(BodyLines[k])
          /\ k - 1 \notin frame.captured

\* C26: _extract_properties removes from the body only the title heading
\* line, the captured 'Key: value' lines and blank lines: every other
\* non-blank line, a non-matching line before the first captured property
\* included, is still a line of resource.content afterwards.
C26_OnlyPropertiesRemoved ==
    frame.pc = "done" =>
        \A k \in 1..Len(BodyLines) :
            (/\ Strip(BodyLines[k]) # <<>>
             /\ ~(k = 1 /\ StartsWith(Strip(BodyLines[1]), <<"#", " ">>))
             /\ k - 1 \notin frame.captured)
            => \E j \in 1..Len(Split(page.content)) :
                   Strip(Split(page.content)[j]) = Strip(BodyLines[k])

(***************************************************************************)
(* SpecJson: LegendKeeperParser.parse_json on the "resources" list of an   *)
(* export file. The Resource objects are numbered in the order of their    *)
(* creation: id, name, parent_id and children are lists over them.         *)
(***************************************************************************)
\* res_data.get(key, default) on a record of the file
RecGet(rec, key, default) == IF key \in DOMAIN rec THEN rec[key] ELSE default

\* A record has an "id" or none, and a "parentId" or none; a parentId is
\* null, or the id of some record, or "z", which no record has.
RecordSet ==
    {[x \in {} |-> None]}
    \cup {[id |-> a] : a \in Ids}
    \cup {[parentId |-> q] : q \in Ids \cup {None, "z"}}
    \cup {[id |-> a, parentId |-> q] : a \in Ids, q \in Ids \cup {None, "z"}}

\* data = ConversionData(); resources_by_id = {}
InitJson ==
    /\ resources_data \in UNION {[1..n -> RecordSet] : n \in 0..MaxRecords}
    /\ resources_by_id = <<>>
    /\ jpc = [pass |-> "first", k |-> 0]
    /\ id = <<>> /\ name = <<>> /\ parent_id = <<>> /\ children = <<>>
    /\ resources = <<>> /\ calls = 0 /\ last = NoCall
    /\ CodecIdle /\ NodesIdle /\ NotionIdle /\ PropsIdle /\ MoreIdle

\* First pass, one record: resource = self._parse_resource(res_data), that
\* is Resource(id=res_data.get("id", ""), name=res_data.get("name", ""),
\* parent_id=res_data.get("parentId")); resources_by_id[resource.id] = resource
FirstPass ==
    /\ jpc.pass = "first"
    /\ jpc.k < Len(resources_data)
    /\ LET res_data == resources_data[jpc.k + 1]
           resource == Len(id) + 1
       IN /\ id' = Append(id, RecGet(res_data, "id", ""))
          /\ name' = Append(name, RecGet(res_data, "name", ""))
          /\ parent_id' = Append(parent_id, RecGet(res_data, "parentId", None))
          /\ children' = Append(children, <<>>)
          /\ resources_by_id' =
                SetItem(resources_by_id, RecGet(res_data, "id", ""), resource)
    /\ jpc' = [jpc EXCEPT !.k = jpc.k + 1]
    /\ UNCHANGED <<resources_data, resources, calls, last,
                   codecVars, nodeVars, notionVars, propVars,
                   moreVars>>

\* The first loop is over; the second starts on resources_by_id.values()
StartSecondPass ==
    /\ jpc.pass = "first"
    /\ ~(jpc.k < Len(resources_data))
    /\ jpc' = [pass |-> "second", k |-> 0]
    /\ UNCHANGED <<treeVars, resources_data, resources_by_id,
                   codecVars, nodeVars, notionVars, propVars,
                   moreVars>>

\* The keys of the dict
Keys(d) == {d[k].key : k \in 1..Len(d)}

\* d[key]
Lookup(d, key) == d[CHOOSE k \in 1..Len(d) : d[k].key = key].value

\* Second pass, one resource: when resource.parent_id is truthy and a key of
\* resources_by_id, parent.add_child(resource), else data.add_resource(resource)
SecondPass ==
    /\ jpc.pass = "second"
    /\ jpc.k < Len(resources_by_id)
    /\ LET resource == resources_by_id[jpc.k + 1].value
       IN IF /\ parent_id[resource] \notin {None, ""}
             /\ parent_id[resource] \in Keys(resources_by_id)
          THEN LET parent == Lookup(resources_by_id, parent_id[resource])
               IN /\ children' = [children EXCEPT ![parent] = Append(@, resource)]
                  /\ parent_id' = [parent_id EXCEPT ![resource] = id[parent]]
                  /\ UNCHANGED resources
          ELSE /\ resources' = Append(resources, resource)
               /\ UNCHANGED <<children, parent_id>>
    /\ jpc' = [jpc EXCEPT !.k = jpc.k + 1]
    /\ UNCHANGED <<id, name, calls, last, resources_data, resources_by_id,
                   codecVars, nodeVars, notionVars, propVars,
                   moreVars>>

\* return data
ReturnData ==
    /\ jpc.pass = "second"
    /\ ~(jpc.k < Len(resources_by_id))
    /\ jpc' = [jpc EXCEPT !.pass = "returned"]
    /\ UNCHANGED <<treeVars, resources_data, resources_by_id,
                   codecVars, nodeVars, notionVars, propVars,
                   moreVars>>

NextJson == FirstPass \/ StartSecondPass \/ SecondPass \/ ReturnData

SpecJson == InitJson /\ [][NextJson]_vars

(***************************************************************************)
(* Properties of parse_json                                                *)
(***************************************************************************)
\* The ids the records of the file have.
RecordIds ==
    {resources_data[k].id : k \in {j \in 1..Len(resources_data) :
                                      "id" \in DOMAIN resources_data[j]}}

\* The record has no parentId (none, or null), or one that is no record's id.
ParentUnresolved(rec) ==
    \/ "parentId" \notin DOMAIN rec
    \/ rec.parentId = None
    \/ rec.parentId \notin RecordIds

\* C20: a record whose parentId is absent or names an id that no record of
\* the file has becomes a root of the returned forest, and parse_json returns.
C20_UnresolvedParentIsRoot ==
    jpc.pass = "returned" =>
        \A k \in 1..Len(resources_data) :
            ParentUnresolved(resources_data[k]) => k \in Range(resources)

\* data.get_all_resources() on the forest parse_json returned: a walk no
\* deeper than the number of Resources made.
FlattenedData == Collect(resources, Len(id) + 1)

\* C24: after parse_json every record of the file is present exactly once
\* in get_all_resources() of the result, and the flattened count is the
\* number of records, whatever the records' ids and parentIds are (shared
\* ids, a parentId naming the record itself, parentIds forming a cycle).
C24_EveryRecordOnce ==
    jpc.pass = "returned" =>
        /\ FlattenedData.ok
        /\ Len(FlattenedData.val) = Len(resources_data)
        /\ \A k \in 1..Len(resources_data) : Count(FlattenedData.val, k) = 1

\* C25: in the ConversionData a reader returns every root has parent_id
\* None, and every Resource with a parent_id other than None is in the
\* children list of the Resource of that id, which is reachable from the
\* roots.
C25_RootsAndParents ==
    jpc.pass = "returned" =>
        /\ \A k \in 1..Len(resources) : parent_id[resources[k]] = None
        /\ \A r \in 1..Len(id) :
               parent_id[r] # None =>
                   \E p \in Range(FlattenedData.val) :
                       /\ id[p] = parent_id[r]
                       /\ r \in Range(children[p])


(***************************************************************************)
(* The writers: NotionExporter._format_content and                         *)
(* LegendKeeperExporter._format_markdown_content / _resource_to_legendkeeper *)
(***************************************************************************)
\* At most this many properties on the Resource handed to the writers.
MaxProps == 2

\* str.lstrip() of a text of several lines
RECURSIVE LStripText(_)
LStripText(s) ==
    IF s # <<>> /\ Head(s) \in Whitespace \cup {"\n"} THEN LStripText(Tail(s))
    ELSE s

\* The items of the dict taken last first.
ItemsMutReversed(props) == [k \in 1..Len(props) |-> props[Len(props) + 1 - k]]

\* resource.properties.items(): the items in insertion order
Items(props) == props

\* ", ".join(resource.tags)
JoinTags(tags) == Join(tags, <<",", " ">>)

\* NotionExporter._format_content(resource): the parts list joined by "\n"
_format_content(resource) ==
    LET title == << <<"#", " ">> \o resource.name \o <<"\n">> >>
        props == IF resource.properties # <<>>
                 THEN [k \in 1..Len(resource.properties) |->
                          Items(resource.properties)[k].key \o <<":", " ">>
                          \o Items(resource.properties)[k].value] \o << <<>> >>
                 ELSE <<>>
        main == IF resource.content # <<>> THEN <<resource.content>> ELSE <<>>
        tags == IF resource.tags # <<>>
                THEN << <<"\n", "T", "a", "g", "s", ":", " ">>
                        \o JoinTags(resource.tags) >>
                ELSE <<>>
    IN Join(title \o props \o main \o tags, <<"\n">>)

\* LegendKeeperExporter._format_markdown_content(resource)
_format_markdown_content(resource) ==
    LET front == IF resource.tags # <<>>
                 THEN << <<"-", "-", "-">>,
                         <<"t", "a", "g", "s", ":", " ">> \o JoinTags(resource.tags),
                         <<"-", "-", "-">>, <<>> >>
                 ELSE <<>>
        title == <<"#", " ">> \o resource.name
        main == IF resource.content = <<>> THEN <<>>
                ELSE IF StartsWith(resource.content, title)
                THEN << LStripText(SubSeq(resource.content, Len(title) + 1,
                                          Len(resource.content))) >>
                ELSE <<resource.content>>
    IN Join(front \o main, <<"\n">>)

\* LegendKeeperExporter._content_to_document(content, name): the fields that
\* depend on the arguments (the ids and timestamps are fresh values).
_content_to_document(text, docname) ==
    [name |-> docname, type |-> "page",
     content |-> [type |-> "doc", content |-> _markdown_to_prosemirror(text)]]

\* LegendKeeperExporter._resource_to_legendkeeper(resource); the Resource's
\* appearance fields are at their defaults.
_resource_to_legendkeeper(resource) ==
    LET lk == [schemaVersion |-> 1, id |-> resource.id, name |-> resource.name,
               aliases |-> <<>>, tags |-> resource.tags,
               isHidden |-> FALSE, isLocked |-> FALSE,
               showPropertyBar |-> TRUE,
               properties |-> [k \in 1..Len(resource.properties) |->
                                  [name |-> Items(resource.properties)[k].key,
                                   value |-> Items(resource.properties)[k].value]],
               documents |-> IF resource.content # <<>>
                             THEN <<_content_to_document(resource.content, "Main")>>
                             ELSE <<>>,
               createdBy |-> "converter", pos |-> "M",
               iconGlyph |-> "book", iconColor |-> "#C49454",
               iconShape |-> "pin-medium",
               banner |-> [enabled |-> FALSE, url |-> "", yPosition |-> 50]]
    IN IF resource.parent_id \notin {None, ""}
       THEN lk @@ [parentId |-> resource.parent_id]
       ELSE lk

(***************************************************************************)
(* SpecExport: one Resource handed to the writers; the Notion text is read *)
(* back by NotionParser._extract_properties                                *)
(***************************************************************************)
ExportName == <<"T">>

KeySet == {<<"O", "w">>, <<"A", "b">>, <<"h", "p">>}

ValueSet == {<<"v">>, <<"w">>}

\* The dicts of at most MaxProps items: the keys of a dict are distinct.
PropertySet ==
    UNION {{ps \in [1..n -> [key : KeySet, value : ValueSet]] :
               \A a, b \in 1..n : a # b => ps[a].key # ps[b].key}
           : n \in 0..MaxProps}

ContentSet ==
    {<<>>, <<"b">>, <<"b", "\n", "c">>,
     <<"K", "a", ":", " ", "v", "\n", "b">>,
     <<"#", " ", "T", "\n", "b">>,
     <<"#", " ", "T", "X", "\n", "b">>,
     <<"#", " ", "T", " ", "X", "\n", "b">>,
     <<"#", " ", "U", "\n", "b">>}

TagSet == {<<>>, << <<"t">> >>, << <<"t">>, <<"u">> >>}

InitExport ==
    /\ res_in \in [id : {"a"}, name : {ExportName},
                   parent_id : {None, "p"}, properties : PropertySet,
                   content : ContentSet, tags : TagSet]
    /\ notion_text = <<>> /\ lk_resource = <<>> /\ lk_markdown = <<>>
    /\ reread = NoResource /\ wrote = {}
    /\ TreeIdle /\ CodecIdle /\ NodesIdle
    /\ NotionIdle /\ PropsIdle /\ JsonIdle /\ MainIdle

\* content = self._format_content(resource)
FormatContent ==
    /\ "format_content" \notin wrote
    /\ notion_text' = _format_content(res_in)
    /\ wrote' = wrote \cup {"format_content"}
    /\ UNCHANGED <<res_in, lk_resource, lk_markdown, reread>>
    /\ UNCHANGED <<treeVars, codecVars, nodeVars, notionVars, propVars, jsonVars,
                   mainVars>>

\* content = self._format_markdown_content(resource)
FormatMarkdownContent ==
    /\ "format_markdown_content" \notin wrote
    /\ lk_markdown' = _format_markdown_content(res_in)
    /\ wrote' = wrote \cup {"format_markdown_content"}
    /\ UNCHANGED <<res_in, notion_text, lk_resource, reread>>
    /\ UNCHANGED <<treeVars, codecVars, nodeVars, notionVars, propVars, jsonVars,
                   mainVars>>

\* lk_resource = self._resource_to_legendkeeper(resource)
ResourceToLegendKeeper ==
    /\ "resource_to_legendkeeper" \notin wrote
    /\ lk_resource' = _resource_to_legendkeeper(res_in)
    /\ wrote' = wrote \cup {"resource_to_legendkeeper"}
    /\ UNCHANGED <<res_in, notion_text, lk_markdown, reread>>
    /\ UNCHANGED <<treeVars, codecVars, nodeVars, notionVars, propVars, jsonVars,
                   mainVars>>

\* NotionParser._parse_page on the file _export_resource wrote: a Resource
\* with the text as its content, then _extract_properties
ReadBack ==
    /\ "format_content" \in wrote
    /\ "extract_properties" \notin wrote
    /\ LET r == _extract_properties([name |-> res_in.name,
                                     content |-> notion_text,
                                     properties |-> <<>>])
       IN reread' = [res_in EXCEPT !.properties = r.properties,
                                   !.content = r.content, !.tags = <<>>]
    /\ wrote' = wrote \cup {"extract_properties"}
    /\ UNCHANGED <<res_in, notion_text, lk_resource, lk_markdown>>
    /\ UNCHANGED <<treeVars, codecVars, nodeVars, notionVars, propVars, jsonVars,
                   mainVars>>

NextExport ==
    FormatContent \/ FormatMarkdownContent \/ ResourceToLegendKeeper \/ ReadBack

SpecExport == InitExport /\ [][NextExport]_vars


(***************************************************************************)
(* Properties of the writers                                               *)
(***************************************************************************)
\* The 'key: value' line of one item.
KeyValueLine(item) == item.key \o <<":", " ">> \o item.value

\* C21: both writers emit the properties of the Resource in the insertion
\* order of resource.properties, none dropped and none twice: in the text of
\* _format_content the lines after the title and the blank line under it are
\* the 'key: value' lines of the items in that order, closed by a blank line,
\* and the "properties" list of _resource_to_legendkeeper holds one
\* {name, value} entry per item in that order.
C21_PropertiesInOrder ==
    LET ps == res_in.properties
        n == Len(ps)
    IN /\ "format_content" \in wrote =>
              LET ls == Split(notion_text)
              IN /\ Len(ls) >= n + 2
                 /\ \A k \in 1..n : ls[k + 2] = KeyValueLine(ps[k])
                 /\ n > 0 => Len(ls) >= n + 3 /\ ls[n + 3] = <<>>
       /\ "resource_to_legendkeeper" \in wrote =>
              /\ Len(lk_resource.properties) = n
              /\ \A k \in 1..n :
                     /\ lk_resource.properties[k].name = ps[k].key
                     /\ lk_resource.properties[k].value = ps[k].value

\* Both writers have run on a Resource of at least two properties.
C21_Witness ==
    /\ {"format_content", "resource_to_legendkeeper"} \subseteq wrote
    /\ Len(res_in.properties) >= 2
    /\ res_in.content # <<>>

\* C27: for a Resource without tags, _format_content followed by
\* _extract_properties on the text gives back the same properties in the same
\* order and the same content up to leading and trailing whitespace.
C27_RoundTrip ==
    ("extract_properties" \in wrote /\ res_in.tags = <<>>) =>
        /\ reread.properties = res_in.properties
        /\ StripText(reread.content) = StripText(res_in.content)


\* The front matter written before the content of a Resource with tags.
FrontMatter(tags) ==
    IF tags = <<>> THEN <<>>
    ELSE <<"-", "-", "-", "\n", "t", "a", "g", "s", ":", " ">> \o JoinTags(tags)
         \o <<"\n", "-", "-", "-", "\n", "\n">>

\* C28: _format_markdown_content removes a leading title only when the first
\* line of the content is the level-1 heading whose text is exactly the
\* Resource's name; in every other case, a first-line heading that merely
\* starts with the name included, the content is written unchanged.
C28_TitleOnlyWhenExact ==
    ("format_markdown_content" \in wrote /\ res_in.content # <<>>) =>
        LET first == Split(res_in.content)[1]
            title == <<"#", " ">> \o res_in.name
        IN IF first = title
           THEN lk_markdown = FrontMatter(res_in.tags)
                    \o LStripText(SubSeq(res_in.content, Len(title) + 1,
                                         Len(res_in.content)))
           ELSE lk_markdown = FrontMatter(res_in.tags) \o res_in.content


(***************************************************************************)
(* The command line tool: main() of src/notionkeeper.py and                *)
(* NotionKeeper.to_legendkeeper of src/src/converter.py                    *)
(***************************************************************************)
\* At most this many items in the export directory.
MaxItems == 2

\* A file or directory name: "P.md" is [stem |-> "P", ext |-> ".md"].
FileName(stem, ext) == [stem |-> stem, ext |-> ext]

\* Element(name=..., context=..., subelements=...)
Element(elname, context, subelements) ==
    [name |-> elname, context |-> context, subelements |-> subelements]

\* The items of a directory that the first loop makes Elements of: the
\* names ending in ".md" that are no directories and whose file can be read.
IsPage(item) == item.name.ext = ".md" /\ ~item.isdir /\ item.readable

\* os.path.isdir(corresponding_dir): the directory of the page's name
CorrespondingDir(items, stem) ==
    {k \in 1..Len(items) : items[k].isdir /\ items[k].name = FileName(stem, "")}

\* processed_dirs after the first loop
ProcessedDirs(items) ==
    {FileName(items[k].name.stem, "") :
        k \in {j \in 1..Len(items) :
                  /\ IsPage(items[j])
                  /\ CorrespondingDir(items, items[j].name.stem) # {}}}

\* NotionKeeper.read_notion_elements(directory_path): [] when os.listdir
\* raises; else one Element per readable .md file, with the Elements of the
\* directory of its name, then one Element with blank context per directory
\* that no page took.
RECURSIVE read_notion_elements(_)
read_notion_elements(directory) ==
    IF ~directory.listable THEN <<>>
    ELSE LET items == directory.items
             md_items == SelectSeq(items, IsPage)
             dir_items == SelectSeq(items, LAMBDA it :
                              it.isdir /\ it.name \notin ProcessedDirs(items))
             page_elements ==
                 [k \in 1..Len(md_items) |->
                     LET ds == CorrespondingDir(items, md_items[k].name.stem)
                     IN Element(FileName(md_items[k].name.stem, ""),
                                md_items[k].context,
                                IF ds # {}
                                THEN read_notion_elements(items[CHOOSE d \in ds : TRUE])
                                ELSE <<>>)]
             dir_elements ==
                 [k \in 1..Len(dir_items) |->
                     Element(dir_items[k].name, <<>>,
                             read_notion_elements(dir_items[k]))]
         IN page_elements \o dir_elements

\* The list to_legendkeeper builds with functions.append(...)
functions ==
    <<"clean_notion_ids", "convert_callouts", "clean_html_tags",
      "convert_todos", "remove_links">>

\* NotionKeeper.map_all_elements(elements, functions): the calls
\* function(element) it makes, in the order it makes them. What a rule does
\* to the name or the context of its element is not modelled.
RECURSIVE map_all_elements(_, _)
map_all_elements(elements, fs) ==
    IF elements = <<>> THEN <<>>
    ELSE LET element == Head(elements)
         IN [k \in 1..Len(fs) |-> [function |-> fs[k], element |-> element.name]]
            \o (IF element.subelements # <<>>
                THEN map_all_elements(element.subelements, fs)
                ELSE <<>>)
            \o map_all_elements(Tail(elements), fs)

\* def map_all_elements(self, elements, functions): the parameters after self
MapAllElementsParams == 2

\* self.map_all_elements(root_elements, functions, None): the arguments passed
MapAllElementsArgs == 3

\* The process-wide stream and the NotionKeeper's logging fields.
LogState == [sys_stdout |-> sys_stdout, logger |-> logger,
             logger_stdout |-> logger_stdout, log_file |-> log_file]

\* NotionKeeper.start_logging: self.logger = Logger(self.log_path), which
\* opens the log file and keeps sys.stdout; sys.stdout = self.logger
start_logging(st) ==
    [sys_stdout |-> "logger", logger |-> "Logger",
     logger_stdout |-> st.sys_stdout, log_file |-> "open"]

\* stop_logging closing the file and dropping the Logger, sys.stdout left.
stop_loggingMutNoRestore(st) ==
    IF st.logger # None
    THEN [st EXCEPT !.log_file = "closed", !.logger = None]
    ELSE st

\* NotionKeeper.stop_logging: if self.logger: sys.stdout = self.logger.stdout;
\* self.logger.close(); self.logger = None
stop_logging(st) ==
    IF st.logger # None
    THEN [st EXCEPT !.sys_stdout = st.logger_stdout, !.log_file = "closed",
                    !.logger = None]
    ELSE st

(***************************************************************************)
(* SpecMain: one run of main() on an export directory                      *)
(***************************************************************************)
\* A file of a directory
File(stem, ext, readable) ==
    [name |-> FileName(stem, ext), isdir |-> FALSE, readable |-> readable,
     context |-> <<"c">>, listable |-> FALSE, items |-> <<>>]

\* A directory of a directory
Dir(stem, ext, listable, items) ==
    [name |-> FileName(stem, ext), isdir |-> TRUE, readable |-> FALSE,
     context |-> <<>>, listable |-> listable, items |-> items]

\* What the directory of the page P may hold.
SubListings ==
    {<<>>, <<File("S", ".md", TRUE)>>, <<File("S", ".md", TRUE), Dir("S", "", TRUE, <<>>)>>}

\* What the export directory may hold: pages with and without their
\* directory, a page that cannot be read, a directory without page, a
\* directory whose name ends in ".md", a file that is no page.
TopItems ==
    {File("P", ".md", TRUE), File("P", ".md", FALSE), File("Q", ".md", TRUE),
     File("n", ".txt", TRUE), Dir("R", "", TRUE, <<>>), Dir("R", "", FALSE, <<>>),
     Dir("Q", ".md", TRUE, <<>>)}
    \cup {Dir("P", "", TRUE, sub) : sub \in SubListings}

\* os.listdir gives the names of a directory, each once, in any order.
ListingSet ==
    UNION {{ls \in [1..n -> TopItems] :
               \A a, b \in 1..n : a # b => ls[a].name # ls[b].name}
           : n \in 0..MaxItems}

\* nk = NotionKeeper(data_path=args.data): self.logger = None
InitMain ==
    /\ listing \in [listable : BOOLEAN, items : ListingSet]
    /\ no_log \in BOOLEAN
    /\ mpc = "start"
    /\ root_elements = <<>> /\ applied = <<>> /\ saved = FALSE /\ exc = None
    /\ sys_stdout = "console" /\ logger = None /\ logger_stdout = None
    /\ log_file = "none"
    /\ TreeIdle /\ CodecIdle /\ NodesIdle
    /\ NotionIdle /\ PropsIdle /\ JsonIdle /\ ExportIdle

\* if not args.no_log: nk.start_logging()
StartLogging ==
    /\ mpc = "start"
    /\ LET st == IF ~no_log THEN start_logging(LogState) ELSE LogState
       IN /\ sys_stdout' = st.sys_stdout /\ logger' = st.logger
          /\ logger_stdout' = st.logger_stdout /\ log_file' = st.log_file
    /\ mpc' = "try"
    /\ UNCHANGED <<listing, no_log, root_elements, applied, saved, exc>>
    /\ UNCHANGED <<treeVars, codecVars, nodeVars, notionVars, propVars, jsonVars,
                   exportVars>>

\* to_legendkeeper up to the rules: root_elements =
\* self.read_notion_elements(self.data_path), print_elements, len_elements
ReadElements ==
    /\ mpc = "try"
    /\ root_elements' = read_notion_elements(listing)
    /\ mpc' = "rules"
    /\ UNCHANGED <<listing, no_log, applied, saved, exc,
                   sys_stdout, logger, logger_stdout, log_file>>
    /\ UNCHANGED <<treeVars, codecVars, nodeVars, notionVars, propVars, jsonVars,
                   exportVars>>

\* to_legendkeeper from the rules on: the functions list, the call
\* self.map_all_elements(root_elements, functions, None), which raises
\* TypeError when the arguments are not what the method takes, then
\* print_elements and save_legendkeeper_elements; an exception leaves the try.
ApplyRulesAndSave ==
    /\ mpc = "rules"
    /\ IF MapAllElementsArgs = MapAllElementsParams
       THEN /\ applied' = map_all_elements(root_elements, functions)
            /\ saved' = TRUE
            /\ exc' = None
       ELSE /\ exc' = "TypeError"
            /\ UNCHANGED <<applied, saved>>
    /\ mpc' = "finally"
    /\ UNCHANGED <<listing, no_log, root_elements,
                   sys_stdout, logger, logger_stdout, log_file>>
    /\ UNCHANGED <<treeVars, codecVars, nodeVars, notionVars, propVars, jsonVars,
                   exportVars>>

\* finally: if not args.no_log: nk.stop_logging(); then main returns, or the
\* exception goes on
Finally ==
    /\ mpc = "finally"
    /\ LET st == IF ~no_log THEN stop_logging(LogState) ELSE LogState
       IN /\ sys_stdout' = st.sys_stdout /\ logger' = st.logger
          /\ logger_stdout' = st.logger_stdout /\ log_file' = st.log_file
    /\ mpc' = "exited"
    /\ UNCHANGED <<listing, no_log, root_elements, applied, saved, exc>>
    /\ UNCHANGED <<treeVars, codecVars, nodeVars, notionVars, propVars, jsonVars,
                   exportVars>>

NextMain == StartLogging \/ ReadElements \/ ApplyRulesAndSave \/ Finally

\* main() is sequential: once started it runs to its end.
SpecMain == InitMain /\ [][NextMain]_vars /\ WF_vars(NextMain)


(***************************************************************************)
(* Properties of the command line tool                                     *)
(***************************************************************************)
\* Every Element of a forest, at any depth.
RECURSIVE ElementsOf(_)
ElementsOf(es) ==
    UNION {{es[k]} \cup ElementsOf(es[k].subelements) : k \in 1..Len(es)}

\* The rule calls made on the element of that name, in the order made.
CallsOn(elname) == SelectSeq(applied, LAMBDA call : call.element = elname)

\* The places in applied of the calls made on the element of that name.
PlacesOf(elname) == {k \in 1..Len(applied) : applied[k].element = elname}

\* C29: whenever reading the export directory succeeds, to_legendkeeper
\* applies clean_notion_ids, convert_callouts, clean_html_tags, convert_todos
\* and remove_links, in that order and once each, to every element, to an
\* element before its subelements, and then reaches the save step.
C29_RulesThenSave ==
    (mpc = "exited" /\ listing.listable) =>
        /\ \A e \in ElementsOf(root_elements) :
               /\ CallsOn(e.name) =
                      [k \in 1..5 |->
                          [function |-> <<"clean_notion_ids", "convert_callouts",
                                          "clean_html_tags", "convert_todos",
                                          "remove_links">>[k],
                           element |-> e.name]]
               /\ \A k \in 1..Len(e.subelements) :
                      \A a \in PlacesOf(e.name) :
                          \A b \in PlacesOf(e.subelements[k].name) : a < b
        /\ saved

\* C30: when main() has run with logging enabled, stop_logging has run,
\* whether to_legendkeeper returned or raised: sys.stdout is the stream it
\* was before, the log file is closed and the logger field is None; with
\* --no-log sys.stdout is never replaced and no log file is opened. main()
\* gets there on every run.
C30_LoggingStopped ==
    /\ [](no_log => sys_stdout = "console" /\ logger = None /\ log_file = "none")
    /\ []((mpc = "exited" /\ ~no_log) =>
              sys_stdout = "console" /\ logger = None /\ log_file = "closed")
    /\ <>(mpc = "exited")

\* main() has ended with logging enabled, to_legendkeeper having raised
\* after it read elements.
C30_Witness ==
    /\ mpc = "exited"
    /\ ~no_log
    /\ exc = "TypeError"
    /\ root_elements # <<>>
    /\ log_file = "closed"

====
